---- MODULE Spec2Model ----
(***************************************************************************)
(* PredictiveSpeaking: the serve-time prediction path.                     *)
(*                                                                         *)
(*   ragPredictor   the RAGPredictor singleton of server.js (the knowledge *)
(*                  store, the similarity search and the gated predictor)  *)
(*   azurePredictor the AzurePredictor singleton (plain predictor and the  *)
(*                  rolling conversation history)                          *)
(*   sessions, sessionLanguages   the two Maps of server.js                *)
(*   calls          the activations of the async function handleTranscript *)
(*                  that are in flight, each suspended at one of its       *)
(*                  awaits                                                 *)
(*                                                                         *)
(* JavaScript runs one handler at a time and switches only at an await of  *)
(* a pending I/O promise, so one action is the code between two such       *)
(* awaits.  Strings the code cuts or compares are tuples of one-character  *)
(* strings; names that are only stored and handed on are TLA+ strings.     *)
(***************************************************************************)
EXTENDS Integers, Sequences, FiniteSets, TLC

----------------------------------------------------------------------------
(* Bounds *)

\* transcripts that pass the checks of handleTranscript over a run: each one
\* lengthens session.transcript and the conversation history
MaxTranscripts == 2

\* activations of handleTranscript in flight: they share no state but the
\* history they append to, so one at a time shows every step of each
CallIds == {"c1"}
\* Date.now().toString() of the connections
SessionIds == {"s1"}

----------------------------------------------------------------------------
(* JavaScript values *)

Null == "null"
Undefined == "undefined"
\* null where the code holds a string (a word): no tuple of characters
NullStr == <<"null">>
\* null where the code holds an object or an array of numbers
NullResult == [isNull |-> TRUE]
NotCalled == [notCalled |-> TRUE]

Min(a, b) == IF a < b THEN a ELSE b

----------------------------------------------------------------------------
(* String.prototype helpers, on tuples of characters *)

Whitespace == {" ", "\n"}
\* the character class of ragPredictor.js:199
TrailingPunct == {".", ",", "!", "?", ";", ":"}

\* s.trim()
trim(s) ==
  LET keep == {i \in 1..Len(s) : s[i] \notin Whitespace}
  IN IF keep = {} THEN <<>>
     ELSE LET lo == CHOOSE i \in keep : \A j \in keep : i <= j
              hi == CHOOSE i \in keep : \A j \in keep : j <= i
          IN SubSeq(s, lo, hi)

\* s.split(/\s+/)[0]
splitFirst(s) ==
  LET ws == {i \in 1..Len(s) : s[i] \in Whitespace}
  IN IF ws = {} THEN s
     ELSE SubSeq(s, 1, (CHOOSE i \in ws : \A j \in ws : i <= j) - 1)

\* the last element of s.split(/\s+/)
splitLast(s) ==
  LET ws == {i \in 1..Len(s) : s[i] \in Whitespace}
  IN IF ws = {} THEN s
     ELSE SubSeq(s, (CHOOSE i \in ws : \A j \in ws : j <= i) + 1, Len(s))

\* s.replace(/[...]+$/g, '')
stripTrailingPunct(s) ==
  LET keep == {i \in 1..Len(s) : s[i] \notin TrailingPunct}
  IN IF keep = {} THEN <<>>
     ELSE SubSeq(s, 1, CHOOSE i \in keep : \A j \in keep : j <= i)

\* s.includes(sub)
includes(s, sub) ==
  \E i \in 1..(Len(s) + 1) :
    /\ i + Len(sub) - 1 <= Len(s)
    /\ SubSeq(s, i, i + Len(sub) - 1) = sub

\* x || null, for a string x
orNull(s) == IF s = <<>> THEN NullStr ELSE s

\* the truthiness of a string or null
truthy(s) == s # NullStr /\ s # <<>>

----------------------------------------------------------------------------
(* Numbers: a similarity is the exact quotient num/den; den = 0 is NaN     *)
(* (0/0, the only division by zero cosineSimilarity can make).  The        *)
(* embeddings below have integer norms, so the quotient the code computes  *)
(* in floating point is the correctly rounded value of this fraction and   *)
(* every comparison below agrees with the code's.                          *)

Num(n, d) == [num |-> n, den |-> d]
IsNaN(x) == x.den = 0
\* x < y, false when either is NaN
Lt(x, y) == ~IsNaN(x) /\ ~IsNaN(y) /\ x.num * y.den < y.num * x.den
Ge(x, y) == ~IsNaN(x) /\ ~IsNaN(y) /\ x.num * y.den >= y.num * x.den
NumEq(x, y) == ~IsNaN(x) /\ ~IsNaN(y) /\ x.num * y.den = y.num * x.den

\* the largest norm of an embedding below
MaxNorm == 100
\* Math.sqrt on the squares the embeddings below produce
sqrt(n) == CHOOSE r \in 0..MaxNorm : r * r = n

\* the threshold of the gate: 0.3
GateThreshold == Num(3, 10)
\* the topK of predict
TopK == 3

----------------------------------------------------------------------------
(* Completion of a call: a value returned or an exception thrown *)

Return(v) == [throw |-> FALSE, value |-> v]
Throw(e) == [throw |-> TRUE, error |-> e]

----------------------------------------------------------------------------
(* The embedding service and the knowledge-base files on disk *)

\* query embeddings the service answers with
e1 == <<1, 0, 0, 0, 0>>
e2 == <<0, 1, 0, 0, 0>>
QueryEmbeddings == {e1, e2}

\* chunk embeddings of norm 100: against e1 they score 0.29, 0.30 and 0.90
v29 == <<29, 95, 11, 3, 2>>
v30 == <<30, 95, 7, 5, 1>>
v90 == <<90, 43, 7, 1, 1>>
\* and 0.10, 0.50 and 0.80
v10 == <<10, 90, 30, 30, 0>>
v50 == <<50, 50, 50, 50, 0>>
v80 == <<80, 60, 0, 0, 0>>
\* an embedding of norm 0, and one of another model (three dimensions)
zero == <<0, 0, 0, 0, 0>>
d3 == <<1, 0, 0>>

\* rag-knowledge/*.json: the parsed content, or text JSON.parse rejects
Disk ==
  [f \in {"a.json", "b.json", "e.json", "bad.json",
          "five.json", "ties.json", "zero.json", "mixed.json"} |->
     CASE f = "a.json" ->
            [json |-> TRUE,
             data |-> [modelName |-> "A", language |-> "ja",
                       chunks |-> << [text |-> "tA1", embedding |-> v29],
                                     [text |-> "tA2", embedding |-> v30] >>]]
       [] f = "b.json" ->
            [json |-> TRUE,
             data |-> [modelName |-> "B", language |-> "en",
                       chunks |-> << [text |-> "tB1", embedding |-> v29] >>]]
       [] f = "e.json" ->
            [json |-> TRUE, data |-> [modelName |-> "E"]]
       [] f = "bad.json" ->
            [json |-> FALSE]
       [] f = "five.json" ->
            [json |-> TRUE,
             data |-> [modelName |-> "F", language |-> "en",
                       chunks |-> << [text |-> "tF1", embedding |-> v90],
                                     [text |-> "tF2", embedding |-> v10],
                                     [text |-> "tF3", embedding |-> v50],
                                     [text |-> "tF4", embedding |-> v80],
                                     [text |-> "tF5", embedding |-> v30] >>]]
       [] f = "ties.json" ->
            [json |-> TRUE,
             data |-> [modelName |-> "T", language |-> "en",
                       chunks |-> << [text |-> "tT1", embedding |-> v30],
                                     [text |-> "tT2", embedding |-> v90],
                                     [text |-> "tT3", embedding |-> v30],
                                     [text |-> "tT4", embedding |-> v90] >>]]
       [] f = "zero.json" ->
            [json |-> TRUE,
             data |-> [modelName |-> "Z", language |-> "en",
                       chunks |-> << [text |-> "tZ1", embedding |-> v50],
                                     [text |-> "tZ2", embedding |-> zero],
                                     [text |-> "tZ3", embedding |-> v90] >>]]
       [] f = "mixed.json" ->
            [json |-> TRUE,
             data |-> [modelName |-> "M", language |-> "en",
                       chunks |-> << [text |-> "tM1", embedding |-> d3],
                                     [text |-> "tM2"],
                                     [text |-> "tM3", embedding |-> v90] >>]]]

\* the names a request or a caller of the server gives; missing.json is not
\* on disk
FileNames == {"a.json", "b.json", "e.json", "bad.json", "missing.json"}
\* the knowledge bases the search is tried on
SearchFiles == {"a.json", "five.json", "ties.json", "zero.json", "mixed.json"}

\* the path main gives saveKnowledgeBase: rag-knowledge/<output-name>.json
OutputPath == "out.json"

VARIABLE
  written            \* the files of rag-knowledge the build script has
                     \* written, by their path

\* fs.existsSync: a file of Disk, or one that was written
existsSync(path) == path \in DOMAIN Disk \/ path \in DOMAIN written

\* the decimal digits
Digits == <<"0", "1", "2", "3", "4", "5", "6", "7", "8", "9">>

RECURSIVE digitsOf(_)
\* the digits of a natural number, the first one first
digitsOf(n) ==
  IF n < 10 THEN <<Digits[n + 1]>>
  ELSE Append(digitsOf(n \div 10), Digits[(n % 10) + 1])

\* stringifyNumber leaving out the sign
stringifyNumber_unsigned(n) == digitsOf(IF n < 0 THEN 0 - n ELSE n)

\* JSON.stringify of an integer: its sign and its digits
stringifyNumber(n) == IF n < 0 THEN <<"-">> \o digitsOf(0 - n) ELSE digitsOf(n)

RECURSIVE valueOf(_)
\* the natural number a run of digits stands for
valueOf(t) ==
  IF t = <<>> THEN 0
  ELSE valueOf(SubSeq(t, 1, Len(t) - 1)) * 10
         + (CHOOSE d \in 0..9 : Digits[d + 1] = t[Len(t)])

\* JSON.parse of the text of an integer
parseNumber(t) == IF Head(t) = "-" THEN 0 - valueOf(Tail(t)) ELSE valueOf(t)

\* JSON.stringify of a quotient: null for NaN; the text of a finite double
\* reads back as that double, and is kept as the texts of num and den
stringifyQuotient(x) ==
  IF IsNaN(x) THEN [null |-> TRUE]
  ELSE [num |-> stringifyNumber(x.num), den |-> stringifyNumber(x.den)]

\* JSON.parse of that text: null, or the number
parseQuotient(t) ==
  IF "null" \in DOMAIN t THEN NullResult
  ELSE Num(parseNumber(t.num), parseNumber(t.den))

RECURSIVE escape(_)
\* the characters of a string as JSON.stringify writes them
escape(str) ==
  IF str = <<>> THEN <<>>
  ELSE (CASE Head(str) = "\n" -> <<"\\", "n">>
          [] Head(str) = "\"" -> <<"\\", "\"">>
          [] Head(str) = "\\" -> <<"\\", "\\">>
          [] OTHER -> <<Head(str)>>) \o escape(Tail(str))

RECURSIVE unescape(_)
\* and as JSON.parse reads them
unescape(t) ==
  IF t = <<>> THEN <<>>
  ELSE IF Head(t) = "\\"
    THEN <<IF t[2] = "n" THEN "\n" ELSE t[2]>> \o unescape(SubSeq(t, 3, Len(t)))
    ELSE <<Head(t)>> \o unescape(Tail(t))

\* JSON.stringify and JSON.parse of a string
stringifyString(str) == <<"\"">> \o escape(str) \o <<"\"">>
parseString(t) == unescape(SubSeq(t, 2, Len(t) - 1))

\* JSON.stringify(data, null, 2) of the object saveKnowledgeBase builds
JSONstringify(data) ==
  [modelName |-> data.modelName, language |-> data.language,
   chunkSize |-> stringifyNumber(data.chunkSize),
   chunkOverlap |-> stringifyNumber(data.chunkOverlap),
   createdAt |-> data.createdAt,
   chunks |-> [k \in 1..Len(data.chunks) |->
                 [text |-> stringifyString(data.chunks[k].text),
                  embedding |-> [j \in 1..Len(data.chunks[k].embedding) |->
                                   stringifyNumber(data.chunks[k].embedding[j])]]],
   stats |-> [totalChunks |-> stringifyNumber(data.stats.totalChunks),
              avgChunkLength |-> stringifyQuotient(data.stats.avgChunkLength)]]

\* JSON.parse of a text JSONstringify wrote
JSONparseText(t) ==
  [modelName |-> t.modelName, language |-> t.language,
   chunkSize |-> parseNumber(t.chunkSize),
   chunkOverlap |-> parseNumber(t.chunkOverlap),
   createdAt |-> t.createdAt,
   chunks |-> [k \in 1..Len(t.chunks) |->
                 [text |-> parseString(t.chunks[k].text),
                  embedding |-> [j \in 1..Len(t.chunks[k].embedding) |->
                                   parseNumber(t.chunks[k].embedding[j])]]],
   stats |-> [totalChunks |-> parseNumber(t.stats.totalChunks),
              avgChunkLength |-> parseQuotient(t.stats.avgChunkLength)]]

\* JSON.parse(fs.readFileSync(path)): of a file that was written, kept as its
\* text, or of a file of Disk, kept as its parsed content
JSONparse(path) ==
  IF path \in DOMAIN written
    THEN Return(JSONparseText(written[path].text))
    ELSE IF Disk[path].json THEN Return(Disk[path].data)
    ELSE Throw("SyntaxError")

\* data.field, undefined when the object has no such field
field(data, name, absent) == IF name \in DOMAIN data THEN data[name] ELSE absent

----------------------------------------------------------------------------
(* RAGPredictor *)

\* the constructor
RAGPredictor ==
  [knowledgeBase |-> <<>>, modelLoaded |-> FALSE, modelName |-> Null,
   language |-> "ja"]

\* the catch block of loadKnowledgeBase
loadKnowledgeBase_catch(self) ==
  [self |-> [self EXCEPT !.modelLoaded = FALSE], ret |-> FALSE]

\* loadKnowledgeBase_notFound with the path test moved into the try block,
\* its failure handled like every other one
loadKnowledgeBase_notFound_asError(self) == loadKnowledgeBase_catch(self)

\* the branch of loadKnowledgeBase for a path that does not exist
loadKnowledgeBase_notFound(self) == [self |-> self, ret |-> FALSE]

\* loadKnowledgeBase_assign taking a file without chunks for a broken one
loadKnowledgeBase_assign_chunksRequired(self, data) ==
  IF "chunks" \notin DOMAIN data THEN loadKnowledgeBase_catch(self)
  ELSE [self |-> [self EXCEPT !.knowledgeBase = data.chunks,
                              !.modelName = field(data, "modelName", Undefined),
                              !.language = field(data, "language", "ja"),
                              !.modelLoaded = TRUE],
        ret |-> TRUE]

\* loadKnowledgeBase_assign pushing the chunks onto the array it has
loadKnowledgeBase_assign_appending(self, data) ==
  [self |-> [self EXCEPT !.knowledgeBase = @ \o field(data, "chunks", <<>>),
                         !.modelName = field(data, "modelName", Undefined),
                         !.language = field(data, "language", "ja"),
                         !.modelLoaded = TRUE],
   ret |-> TRUE]

\* the assignments of loadKnowledgeBase from the parsed file
loadKnowledgeBase_assign(self, data) ==
  [self |-> [self EXCEPT !.knowledgeBase = field(data, "chunks", <<>>),
                         !.modelName = field(data, "modelName", Undefined),
                         !.language = field(data, "language", "ja"),
                         !.modelLoaded = TRUE],
   ret |-> TRUE]

\* loadKnowledgeBase(path): the object after the call and the value returned
loadKnowledgeBase(self, path) ==
  IF ~existsSync(path)
    THEN loadKnowledgeBase_notFound(self)
    ELSE LET parsed == JSONparse(path)
         IN IF parsed.throw
              THEN loadKnowledgeBase_catch(self)
              ELSE loadKnowledgeBase_assign(self, parsed.value)

\* unload leaving modelName as it is
unload_keepingName(self) ==
  [self EXCEPT !.knowledgeBase = <<>>, !.modelLoaded = FALSE]

\* unload()
unload(self) ==
  [self EXCEPT !.knowledgeBase = <<>>, !.modelLoaded = FALSE, !.modelName = Null]

\* getModelInfo()
getModelInfo(self) ==
  [loaded |-> self.modelLoaded, modelName |-> self.modelName,
   language |-> self.language, totalChunks |-> Len(self.knowledgeBase),
   type |-> "rag"]

\* null where createEmbedding holds an embedding
NullVec == <<"null">>

\* what embeddings.create answers: an embedding, or the request fails
EmbeddingResponses ==
  {[kind |-> "ok", embedding |-> q] : q \in QueryEmbeddings} \cup {[kind |-> "error"]}

\* createEmbedding(text), from the answer of the embedding service on
createEmbedding(response) ==
  IF response.kind = "ok" THEN response.embedding ELSE NullVec

RECURSIVE SumProd(_, _, _)
\* the loop of cosineSimilarity: the sum of a[i] * b[i] for i up to n
SumProd(a, b, n) == IF n = 0 THEN 0 ELSE SumProd(a, b, n - 1) + a[n] * b[n]

\* cosineSimilarity testing only for absent vectors: with lengths that
\* differ the loop reads past the end of one and the sums are NaN
cosineSimilarity_lengthUnchecked(vecA, vecB) ==
  IF vecA = NullVec \/ vecB = NullVec THEN Num(0, 1)
  ELSE IF Len(vecA) # Len(vecB) THEN Num(0, 0)
  ELSE Num(SumProd(vecA, vecB, Len(vecA)),
           sqrt(SumProd(vecA, vecA, Len(vecA)))
             * sqrt(SumProd(vecB, vecB, Len(vecB))))

\* cosineSimilarity(vecA, vecB)
cosineSimilarity(vecA, vecB) ==
  IF vecA = NullVec \/ vecB = NullVec \/ Len(vecA) # Len(vecB)
    THEN Num(0, 1)
    ELSE LET dotProduct == SumProd(vecA, vecB, Len(vecA))
             normA == SumProd(vecA, vecA, Len(vecA))
             normB == SumProd(vecB, vecB, Len(vecB))
         IN Num(dotProduct, sqrt(normA) * sqrt(normB))

\* chunk.embedding
embeddingOf(chunk) == field(chunk, "embedding", NullVec)

\* the comparator (a, b) => b.score - a.score is positive: a sorts after b
sortsAfter(a, b) == Lt(a.score, b.score)

RECURSIVE sortByScore(_)
\* scores.sort(...): stable, so an element goes after the elements before
\* it that it does not beat
sortByScore(scores) ==
  IF Len(scores) <= 1 THEN scores
  ELSE LET n == Len(scores)
           x == scores[n]
           head == sortByScore(SubSeq(scores, 1, n - 1))
           before == {i \in 1..(n - 1) : sortsAfter(head[i], x)}
           k == IF before = {} THEN n
                ELSE CHOOSE i \in before : \A j \in before : i <= j
       IN SubSeq(head, 1, k - 1) \o <<x>> \o SubSeq(head, k, n - 1)

\* searchRelevantChunks before its await: [] at once, or the embedding request
searchRelevantChunks_guard(self) ==
  ~self.modelLoaded \/ Len(self.knowledgeBase) = 0

\* searchRelevantChunks sorting this.knowledgeBase itself by the score
searchRelevantChunks_sortingInPlace(self, queryEmbedding, topK) ==
  IF queryEmbedding = NullVec
    THEN [self |-> self, ret |-> <<>>]
    ELSE LET scored == [i \in 1..Len(self.knowledgeBase) |->
                          [text |-> self.knowledgeBase[i].text,
                           embedding |-> embeddingOf(self.knowledgeBase[i]),
                           score |-> cosineSimilarity(
                                       queryEmbedding,
                                       embeddingOf(self.knowledgeBase[i]))]]
             sorted == sortByScore(scored)
         IN [self |-> [self EXCEPT !.knowledgeBase =
                         [i \in 1..Len(sorted) |->
                            [text |-> sorted[i].text,
                             embedding |-> sorted[i].embedding]]],
             ret |-> [i \in 1..Min(topK, Len(sorted)) |->
                        [text |-> sorted[i].text, score |-> sorted[i].score]]]

\* searchRelevantChunks after its await: the object and the value returned
searchRelevantChunks(self, queryEmbedding, topK) ==
  IF queryEmbedding = NullVec
    THEN [self |-> self, ret |-> <<>>]
    ELSE LET scores == [i \in 1..Len(self.knowledgeBase) |->
                          [text |-> self.knowledgeBase[i].text,
                           score |-> cosineSimilarity(
                                       queryEmbedding,
                                       embeddingOf(self.knowledgeBase[i]))]]
             sorted == sortByScore(scores)
         IN [self |-> self, ret |-> SubSeq(sorted, 1, Min(topK, Len(sorted)))]

\* the map of searchRelevantChunks: every chunk with its score
scoresOf(self, queryEmbedding) ==
  [i \in 1..Len(self.knowledgeBase) |->
     [text |-> self.knowledgeBase[i].text,
      score |-> cosineSimilarity(queryEmbedding,
                                 embeddingOf(self.knowledgeBase[i]))]]

\* the comparator is a consistent comparison function for these elements:
\* b.score - a.score is NaN, which sort takes for +0, as soon as one is NaN
consistentComparator(scores) ==
  \A i \in 1..Len(scores) : ~IsNaN(scores[i].score)

\* the orders Array.prototype.sort may leave: the stable order under a
\* consistent comparator, an order the implementation defines otherwise
sortOutcomes(scores) ==
  IF consistentComparator(scores) THEN {sortByScore(scores)}
  ELSE LET n == Len(scores)
           perms == {p \in [1..n -> 1..n] : \A i, j \in 1..n : p[i] = p[j] => i = j}
       IN {[i \in 1..n |-> scores[p[i]]] : p \in perms}

\* what searchRelevantChunks may return for an embedded query
searchReturns(self, queryEmbedding, topK) ==
  {SubSeq(sorted, 1, Min(topK, Len(sorted))) :
     sorted \in sortOutcomes(scoresOf(self, queryEmbedding))}

\* predict_gate with <= for <
predict_gate_exclusive(relevantChunks) ==
  \/ Len(relevantChunks) = 0
  \/ ~IsNaN(relevantChunks[1].score)
       /\ ~Lt(GateThreshold, relevantChunks[1].score)

\* the gate of predict: no result, or the top score below the threshold
predict_gate(relevantChunks) ==
  \/ Len(relevantChunks) = 0
  \/ Lt(relevantChunks[1].score, GateThreshold)

\* answers of chat.completions.create: a content, a failed request, or a
\* response without choices[0].message.content
Contents == { <<"a">>, <<"b", ".">>, <<" ">> }
CompletionResponses ==
  {[kind |-> "ok", content |-> t] : t \in Contents}
    \cup {[kind |-> "error"], [kind |-> "malformed"]}

\* the word predict takes from the completion
extractWord(predictedText, lang) ==
  IF lang = "ja" THEN trim(splitFirst(predictedText))
  ELSE trim(stripTrailingPunct(predictedText))

\* predict_body with the fixed confidence the plain predictor gives a word
predict_body_fixedConfidence(relevantChunks, response, lang) ==
  IF response.kind = "error" THEN Throw("APIError")
  ELSE IF response.kind = "malformed" THEN Throw("TypeError")
  ELSE LET predictedText == trim(response.content)
           word == extractWord(predictedText, lang)
       IN Return([word |-> orNull(word),
                  confidence |-> IF word # <<>> THEN Num(4, 5) ELSE Num(0, 1),
                  reasoning |-> "rag_prediction",
                  rawResponse |-> predictedText,
                  relevantChunks |-> Len(relevantChunks),
                  topSimilarity |-> relevantChunks[1].score])

\* predict from the answer of the completion service to its return statement
predict_body(relevantChunks, response, lang) ==
  IF response.kind = "error" THEN Throw("APIError")
  ELSE IF response.kind = "malformed" THEN Throw("TypeError")
  ELSE LET predictedText == trim(response.content)
           word == extractWord(predictedText, lang)
       IN Return([word |-> orNull(word),
                  confidence |-> relevantChunks[1].score,
                  reasoning |-> "rag_prediction",
                  rawResponse |-> predictedText,
                  relevantChunks |-> Len(relevantChunks),
                  topSimilarity |-> relevantChunks[1].score])

\* predict without its try/catch
predict_catch_absent(outcome) == outcome

\* the try/catch of predict
predict_catch(outcome) ==
  IF outcome.throw THEN Return(NullResult) ELSE outcome

----------------------------------------------------------------------------
(* AzurePredictor *)

\* the constructor
AzurePredictor == [conversationHistory |-> <<>>]

\* the history cap of addToHistory
HistoryCap == 10

\* addToHistory dropping the text it was given once the history is full
addToHistory_droppingNewest(self, text) ==
  LET pushed == Append(self.conversationHistory, text)
  IN [self EXCEPT !.conversationHistory =
        IF Len(pushed) > HistoryCap THEN SubSeq(pushed, 1, HistoryCap)
        ELSE pushed]

\* addToHistory(text)
addToHistory(self, text) ==
  LET pushed == Append(self.conversationHistory, text)
  IN [self EXCEPT !.conversationHistory =
        IF Len(pushed) > HistoryCap THEN Tail(pushed) ELSE pushed]

\* predict(context, ...), from the answer of the completion service on
azurePredict(context, response) ==
  IF response.kind # "ok"
    THEN [word |-> NullStr, confidence |-> Num(0, 1), reasoning |-> "error"]
    ELSE LET predictedText == trim(response.content)
             word == trim(splitFirst(predictedText))
             lastWord == splitLast(trim(context))
         IN IF word # <<>> /\ lastWord # <<>> /\ includes(word, lastWord)
              THEN [word |-> NullStr, confidence |-> Num(0, 1),
                    reasoning |-> "duplicate_avoided"]
              ELSE [word |-> orNull(word),
                    confidence |-> IF word # <<>> THEN Num(4, 5) ELSE Num(0, 1),
                    reasoning |-> "llm_prediction",
                    rawResponse |-> predictedText]

----------------------------------------------------------------------------
(* RAGBuilder: the chunker and the embedding loop of the build script.    *)
(* The characters "." and "J" stand for the sentence terminators of the   *)
(* two character classes: "." for . ! ? and "J" for the ideographic ones. *)

\* the terminators text.split cuts at, by this.language
Terminators(language) ==
  IF language = "ja" THEN {"J", "\n"} ELSE {".", "\n"}

RECURSIVE splitAt(_, _)
\* s.split(/[...]+/) less its empty strings: the runs of characters of s
\* that are not in seps (the filter of chunkText drops the empty strings)
splitAt(s, seps) ==
  LET cuts == {i \in 1..Len(s) : s[i] \in seps}
  IN IF cuts = {} THEN (IF s = <<>> THEN <<>> ELSE <<s>>)
     ELSE LET i == CHOOSE k \in cuts : \A j \in cuts : k <= j
              rest == splitAt(SubSeq(s, i + 1, Len(s)), seps)
          IN IF i = 1 THEN rest ELSE <<SubSeq(s, 1, i - 1)>> \o rest

RECURSIVE splitWords(_)
\* s.split(/\s+/): an empty string first when s begins with whitespace, and
\* last when it ends with it
splitWords(s) ==
  LET ws == {i \in 1..Len(s) : s[i] \in Whitespace}
  IN IF ws = {} THEN <<s>>
     ELSE LET i == CHOOSE k \in ws : \A j \in ws : k <= j
              after == {k \in (i + 1)..Len(s) : s[k] \notin Whitespace}
              j == IF after = {} THEN Len(s) + 1
                   ELSE CHOOSE k \in after : \A l \in after : k <= l
          IN <<SubSeq(s, 1, i - 1)>> \o splitWords(SubSeq(s, j, Len(s)))

\* words.slice(-k): the last k elements; all of them for k = 0, which is
\* slice(0); the elements from index -k on for a negative k
sliceLast(words, k) ==
  LET n == Len(words)
      start == IF k > 0 THEN (IF n - k > 0 THEN n - k ELSE 0) ELSE Min(-k, n)
  IN SubSeq(words, start + 1, n)

RECURSIVE join(_, _)
\* words.join(sep)
join(words, sep) ==
  IF Len(words) = 0 THEN <<>>
  ELSE IF Len(words) = 1 THEN words[1]
  ELSE words[1] \o sep \o join(Tail(words), sep)

\* the sentences of chunkText: the units of the split that are not blank
sentencesOf(self, text) ==
  LET units == splitAt(text, Terminators(self.language))
  IN SelectSeq(units, LAMBDA u : trim(u) # <<>>)

\* the buffer of chunkText before its loop: no chunk, currentChunk = ''
chunkText_begin ==
  [chunks |-> <<>>, currentChunk |-> <<>>, branch |-> "none",
   flushed |-> <<>>, sentence |-> <<>>]

\* one iteration of the for loop of chunkText: the chunks and currentChunk
\* after it, the branch it took, and what it took it with (the buffer
\* before, the sentence)
chunkText_iteration(self, st, sentence) ==
  LET trimmed == trim(sentence)
      currentChunk == st.currentChunk
  IN IF trimmed = <<>>
       THEN [st EXCEPT !.branch = "continue", !.flushed = currentChunk,
                       !.sentence = trimmed]
     ELSE IF Len(currentChunk \o trimmed) > self.chunkSize /\ Len(currentChunk) > 0
       THEN LET words == splitWords(currentChunk)
                overlapWords == sliceLast(words, self.chunkOverlap \div 10)
            IN [chunks |-> Append(st.chunks, trim(currentChunk)),
                currentChunk |-> join(overlapWords, <<" ">>) \o <<" ">> \o trimmed,
                branch |-> "flush", flushed |-> currentChunk,
                sentence |-> trimmed]
       ELSE [chunks |-> st.chunks,
             currentChunk |-> currentChunk
                                \o (IF currentChunk # <<>> THEN <<" ">> ELSE <<>>)
                                \o trimmed,
             branch |-> "append", flushed |-> currentChunk,
             sentence |-> trimmed]

\* chunkText_end pushing what is left in the buffer whatever it is
chunkText_end_unguarded(st) == Append(st.chunks, trim(st.currentChunk))

\* chunkText after its loop: the final push, and the chunks returned
chunkText_end(st) ==
  IF Len(trim(st.currentChunk)) > 0
    THEN Append(st.chunks, trim(st.currentChunk))
    ELSE st.chunks

RECURSIVE chunkText_loop(_, _, _, _, _)
\* the for loop of chunkText from sentence i on, and the final push
chunkText_loop(self, sentences, i, chunks, currentChunk) ==
  IF i > Len(sentences)
    THEN chunkText_end([chunkText_begin EXCEPT !.chunks = chunks,
                                               !.currentChunk = currentChunk])
  ELSE LET st == chunkText_iteration(
                   self,
                   [chunkText_begin EXCEPT !.chunks = chunks,
                                           !.currentChunk = currentChunk],
                   sentences[i])
       IN chunkText_loop(self, sentences, i + 1, st.chunks, st.currentChunk)

\* chunkText holding every chunk to chunkSize characters by cutting it
chunkText_cuttingOversized(self, text) ==
  LET chunks == chunkText_loop(self, sentencesOf(self, text), 1, <<>>, <<>>)
  IN [k \in 1..Len(chunks) |->
        SubSeq(chunks[k], 1, Min(Len(chunks[k]), self.chunkSize))]

\* chunkText(text)
chunkText(self, text) ==
  chunkText_loop(self, sentencesOf(self, text), 1, <<>>, <<>>)

\* new RAGBuilder(language, chunkSize, chunkOverlap), where its processText
\* stands, and where its chunkText stands when its loop is followed step by
\* step: the sentences still to come and the buffer; failed is the places
\* of the chunks whose embedding request failed
RAGBuilder(language, chunkSize, chunkOverlap) ==
  [language |-> language, chunkSize |-> chunkSize,
   chunkOverlap |-> chunkOverlap, chunks |-> <<>>,
   pc |-> "idle", textChunks |-> <<>>, i |-> 0, requests |-> <<>>,
   sentences |-> <<>>, loop |-> chunkText_begin, failed |-> {}]

RECURSIVE sumTextLength(_)
\* this.chunks.reduce((sum, c) => sum + c.text.length, 0)
sumTextLength(chunks) ==
  IF chunks = <<>> THEN 0
  ELSE Len(Head(chunks).text) + sumTextLength(Tail(chunks))

\* the object saveKnowledgeBase builds; createdAt is the time of the call
saveKnowledgeBase_data(self, modelName) ==
  [modelName |-> modelName, language |-> self.language,
   chunkSize |-> self.chunkSize, chunkOverlap |-> self.chunkOverlap,
   createdAt |-> "date", chunks |-> self.chunks,
   stats |-> [totalChunks |-> Len(self.chunks),
              avgChunkLength |-> Num(sumTextLength(self.chunks),
                                     Len(self.chunks))]]

\* the build script is not running
NoBuilder == [pc |-> "none"]

----------------------------------------------------------------------------
(* RealtimeTranscribe.  sockets are the WebSockets the object has made, in  *)
(* order, each "connecting", "open", "closing" (close() was called on it,   *)
(* its 'close' event is still to come) or "closed"; ws is the index of the  *)
(* socket this.ws holds, 0 for null; timers counts the pending setTimeout   *)
(* callbacks of handleReconnect.  session and awaiting are the closure of   *)
(* the handler that made the object: its sessionId, and whether it still    *)
(* awaits connect().  disconnectCalled and scheduled record calls: whether  *)
(* disconnect() was called, and the reconnects scheduled since the last     *)
(* 'open'.                                                                  *)

maxReconnectAttempts == 5

\* the constructor
RealtimeTranscribe ==
  [ws |-> 0, isConnected |-> FALSE, reconnectAttempts |-> 0,
   sockets |-> <<>>, timers |-> 0, session |-> "", awaiting |-> FALSE,
   disconnectCalled |-> FALSE, scheduled |-> 0]

\* connect(language): this.ws = new WebSocket(url)
connect(self) ==
  [self EXCEPT !.sockets = Append(@, "connecting"),
               !.ws = Len(self.sockets) + 1]

\* the 'open' handler of socket i
wsOnOpen(self, i) ==
  [self EXCEPT !.sockets[i] = "open", !.isConnected = TRUE,
               !.reconnectAttempts = 0, !.scheduled = 0]

\* handleReconnect scheduling whatever the number of attempts
handleReconnect_unbounded(self) ==
  [self EXCEPT !.reconnectAttempts = @ + 1, !.timers = @ + 1,
               !.scheduled = @ + 1]

\* handleReconnect()
handleReconnect(self) ==
  IF self.reconnectAttempts < maxReconnectAttempts
    THEN [self EXCEPT !.reconnectAttempts = @ + 1, !.timers = @ + 1,
                      !.scheduled = @ + 1]
    ELSE self

\* the 'close' handler of socket i
wsOnClose(self, i) ==
  handleReconnect([self EXCEPT !.sockets[i] = "closed", !.isConnected = FALSE])

\* the callback of handleReconnect's setTimeout
reconnectTimer(self) == connect([self EXCEPT !.timers = @ - 1])

\* WebSocket.close() on a socket in the given state: the 'close' event of a
\* socket that is connecting or open comes later
socketClose(state) ==
  IF state \in {"connecting", "open"} THEN "closing" ELSE state

\* disconnect()
disconnect(self) ==
  IF self.ws # 0
    THEN [self EXCEPT !.sockets[self.ws] = socketClose(@), !.ws = 0,
                      !.isConnected = FALSE, !.disconnectCalled = TRUE]
    ELSE [self EXCEPT !.disconnectCalled = TRUE]

----------------------------------------------------------------------------
(* server.js: the state *)

VARIABLES
  ragPredictor,      \* the RAGPredictor object
  azurePredictor,    \* the AzurePredictor object
  sessions,          \* Map sessionId -> {isActive, transcript}
  sessionLanguages,  \* Map sessionId -> {language}
  wsState,           \* each client socket: "none", "open" or "closed"
  calls,             \* the activations of handleTranscript, each with the
                     \* messages it has passed to ws.send
  reply,             \* the last answer of an operation called from outside:
                     \* a knowledge-base endpoint (in before, what
                     \* getModelInfo gave ahead of it) or a method called
                     \* directly, with its arguments
  builder,           \* the RAGBuilder of the build script, with the place
                     \* of its processText loop and the requests it made
  added,             \* the texts given to addToHistory since the last
                     \* reset, in order (a record of the calls, not a
                     \* field of the program)
  gpt4oTranscribe,   \* whether the transcription service is there (the
                     \* server's gpt4oTranscribe is not null)
  cloneRequests,     \* the /api/clone-voice requests, each with its place
                     \* and its response
  realtimeConnections, \* Map sessionId -> RealtimeTranscribe client
  realtimeClients,   \* the RealtimeTranscribe objects, each with the
                     \* sockets it has opened and its reconnect timers
  app                \* the page of frontend/app.js: its globals, its timers
                     \* and what it has sent and played

vars == <<ragPredictor, azurePredictor, sessions, sessionLanguages, wsState,
          calls, reply, builder, written,
          added, gpt4oTranscribe, cloneRequests, realtimeConnections, realtimeClients, app>>

\* the texts a transcript carries: none, blank, a word
Texts == { <<>>, <<" ">>, <<"a">> }
Languages == {"ja", "en"}

\* an activation before it runs: its locals, what it has called so far and
\* what it has sent
NewCall(c) ==
  [id |-> c, pc |-> "free", sessionId |-> "", text |-> <<>>, language |-> "",
   relevantChunks |-> <<>>, predictedWord |-> NullStr, sent |-> <<>>,
   loadedAtStart |-> FALSE,
   ragCalls |-> 0, embedReqs |-> 0, ragCompletions |-> 0, azureCalls |-> 0,
   ttsReqs |-> 0, searchReturn |-> NotCalled, ragReturn |-> NotCalled,
   azureReturn |-> NotCalled]

\* no /api/clone-voice request yet, and no transcription service
InitClone ==
  /\ added = << >>
  /\ gpt4oTranscribe = FALSE
  /\ cloneRequests = << >>

\* no Realtime transcription client yet
InitRealtime ==
  /\ realtimeConnections = << >>
  /\ realtimeClients = << >>

\* no page open
InitApp == app = [page |-> "none"]

\* the server after its start
InitServer ==
  /\ InitClone
  /\ InitRealtime
  /\ InitApp
  /\ written = << >>
  /\ ragPredictor = RAGPredictor
  /\ azurePredictor = AzurePredictor
  /\ sessions = << >>
  /\ sessionLanguages = << >>
  /\ wsState = [s \in SessionIds |-> "none"]
  /\ calls = [c \in CallIds |-> NewCall(c)]
  /\ reply = [op |-> "none"]

Init ==
  /\ InitServer
  /\ builder = NoBuilder

\* Map.delete
mapDelete(m, k) == [x \in DOMAIN m \ {k} |-> m[x]]
\* Map.set
mapSet(m, k, v) == [x \in DOMAIN m \cup {k} |-> IF x = k THEN v ELSE m[x]]

----------------------------------------------------------------------------
(* server.js: connections and the 'set_language', 'start', 'stop' messages. *)
(* The acknowledgements 'started' and 'stopped' go to the socket and leave  *)
(* no state behind.                                                         *)

\* wss.on('connection')
Connect(s) ==
  /\ wsState[s] = "none"
  /\ wsState' = [wsState EXCEPT ![s] = "open"]
  /\ sessions' = mapSet(sessions, s, [isActive |-> FALSE, transcript |-> <<>>])
  /\ UNCHANGED <<added, gpt4oTranscribe, cloneRequests, realtimeConnections, realtimeClients, app,
                 written, builder, ragPredictor, azurePredictor, sessionLanguages, calls, reply>>

\* ws.on('close')
Close(s) ==
  /\ wsState[s] = "open"
  /\ wsState' = [wsState EXCEPT ![s] = "closed"]
  /\ sessions' = mapDelete(sessions, s)
  /\ sessionLanguages' = mapDelete(sessionLanguages, s)
  /\ UNCHANGED <<added, gpt4oTranscribe, cloneRequests, realtimeConnections, realtimeClients, app,
                 written, builder, ragPredictor, azurePredictor, calls, reply>>

\* case 'set_language': data.language is a language or absent
SetLanguage(s, lang) ==
  /\ wsState[s] = "open"
  /\ sessionLanguages' =
       mapSet(sessionLanguages, s,
              [language |-> IF lang = Undefined THEN "ja" ELSE lang])
  /\ UNCHANGED <<added, gpt4oTranscribe, cloneRequests, realtimeConnections, realtimeClients, app,
                 written, builder, ragPredictor, azurePredictor, sessions, wsState, calls, reply>>

\* case 'start'
Start(s) ==
  /\ wsState[s] = "open"
  /\ sessions' = [sessions EXCEPT ![s].isActive = TRUE]
  /\ UNCHANGED <<added, gpt4oTranscribe, cloneRequests, realtimeConnections, realtimeClients, app,
                 written, builder, ragPredictor, azurePredictor, sessionLanguages, wsState, calls,
                 reply>>

\* the end of 'stop' and the whole of 'stop_realtime': the session's
\* registered client is disconnected and its entry deleted
stopRealtime(conns, clients, s) ==
  IF s \in DOMAIN conns
    THEN [conns |-> mapDelete(conns, s),
          clients |-> [clients EXCEPT ![conns[s]] = disconnect(@)]]
    ELSE [conns |-> conns, clients |-> clients]

\* case 'stop'
Stop(s) ==
  /\ wsState[s] = "open"
  /\ sessions' = [sessions EXCEPT ![s].isActive = FALSE]
  /\ LET r == stopRealtime(realtimeConnections, realtimeClients, s)
     IN /\ realtimeConnections' = r.conns
        /\ realtimeClients' = r.clients
  /\ UNCHANGED <<added, gpt4oTranscribe, cloneRequests, app,
                 written, builder, ragPredictor, azurePredictor, sessionLanguages, wsState, calls,
                 reply>>

----------------------------------------------------------------------------
(* server.js: the knowledge-base endpoints *)

\* POST /api/rag-knowledge/load; filename "" is a body without filename
LoadRequest(filename) ==
  /\ IF filename = ""
       THEN /\ reply' = [op |-> "load", file |-> filename, status |-> 400]
            /\ UNCHANGED ragPredictor
       ELSE IF ~existsSync(filename)
       THEN /\ reply' = [op |-> "load", file |-> filename, status |-> 404]
            /\ UNCHANGED ragPredictor
       ELSE LET r == loadKnowledgeBase(ragPredictor, filename)
            IN /\ ragPredictor' = r.self
               /\ reply' = IF r.ret
                             THEN [op |-> "load", file |-> filename, status |-> 200,
                                   model |-> getModelInfo(r.self),
                                   before |-> getModelInfo(ragPredictor)]
                             ELSE [op |-> "load", file |-> filename, status |-> 500]
  /\ UNCHANGED <<added, gpt4oTranscribe, cloneRequests, realtimeConnections, realtimeClients, app,
                 written, builder, azurePredictor, sessions, sessionLanguages, wsState, calls>>

\* POST /api/rag-knowledge/unload
UnloadRequest ==
  /\ ragPredictor' = unload(ragPredictor)
  /\ reply' = [op |-> "unload", status |-> 200,
               before |-> getModelInfo(ragPredictor)]
  /\ UNCHANGED <<added, gpt4oTranscribe, cloneRequests, realtimeConnections, realtimeClients, app,
                 written, builder, azurePredictor, sessions, sessionLanguages, wsState, calls>>

\* ragPredictor.loadKnowledgeBase(path) called with any path
LoadKnowledgeBase(path) ==
  /\ LET r == loadKnowledgeBase(ragPredictor, path)
     IN /\ ragPredictor' = r.self
        /\ reply' = [op |-> "loadKnowledgeBase", file |-> path, ret |-> r.ret]
  /\ UNCHANGED <<added, gpt4oTranscribe, cloneRequests, realtimeConnections, realtimeClients, app,
                 written, builder, azurePredictor, sessions, sessionLanguages, wsState, calls>>

----------------------------------------------------------------------------
(* server.js: handleTranscript.  Each operator below takes the activation  *)
(* and gives the activation at its next await, or at its return; ws.send   *)
(* appends the message to the activation's sent.                           *)

\* the text the catch block of handleTranscript looks for
NotConnected == "Not connected to WebSocket"

\* sessionLanguages.get(sessionId) || {}, then .language || 'ja'
languageOf(s) ==
  IF s \in DOMAIN sessionLanguages THEN sessionLanguages[s].language ELSE "ja"

\* useRag testing the chunks in memory, not the flag
useRag_byChunks(self) == Len(self.knowledgeBase) > 0

\* the test of line 675: whether the retrieval predictor is tried first
useRag(self) == self.modelLoaded

\* ws.send(JSON.stringify(msg)) by an activation
wsSend(call, msg) == [call EXCEPT !.sent = Append(@, msg)]

\* the catch block of handleTranscript
handleTranscript_catch(call, error) ==
  LET c1 == IF error = NotConnected THEN call
            ELSE wsSend(call, [type |-> "error", message |-> error])
  IN [c1 EXCEPT !.pc = "done"]

\* the 'prediction' message, then the synthesis request
sendPrediction(call, word, source, confidence) ==
  LET c1 == wsSend(call, [type |-> "prediction", word |-> word,
                          input |-> call.text, source |-> source,
                          confidence |-> confidence])
  IN [c1 EXCEPT !.pc = "tts", !.predictedWord = word, !.ttsReqs = @ + 1]

\* azurePredictor.predict is called: the completion request is under way
callAzure(call) == [call EXCEPT !.pc = "llm", !.azureCalls = @ + 1]

\* afterRag going on to the plain predictor whatever predict returned
afterRag_alwaysPlain(call, outcome) ==
  LET c1 == [call EXCEPT !.ragReturn = outcome]
  IN IF outcome.throw THEN handleTranscript_catch(c1, outcome.error)
     ELSE LET llmResult == outcome.value
          IN IF llmResult # NullResult /\ truthy(llmResult.word)
               THEN callAzure(sendPrediction(c1, llmResult.word, "rag",
                                             llmResult.confidence))
               ELSE callAzure(c1)

\* from the return of ragPredictor.predict to the next await
afterRag(call, outcome) ==
  LET c1 == [call EXCEPT !.ragReturn = outcome]
  IN IF outcome.throw THEN handleTranscript_catch(c1, outcome.error)
     ELSE LET llmResult == outcome.value
          IN IF llmResult # NullResult /\ truthy(llmResult.word)
               THEN sendPrediction(c1, llmResult.word, "rag", llmResult.confidence)
               ELSE callAzure(c1)

\* afterAzure leaving predictionSource as the retrieval branch names it
afterAzure_sourceRag(call, llmResult) ==
  LET c1 == [call EXCEPT !.azureReturn = Return(llmResult)]
  IN IF ~truthy(llmResult.word)
       THEN [c1 EXCEPT !.pc = "done"]
       ELSE sendPrediction(c1, llmResult.word, "rag", llmResult.confidence)

\* afterAzure reporting a failed prediction to the client
afterAzure_reportingError(call, llmResult) ==
  LET c1 == [call EXCEPT !.azureReturn = Return(llmResult)]
  IN IF llmResult.reasoning = "error"
       THEN handleTranscript_catch(c1, "APIError")
     ELSE IF ~truthy(llmResult.word)
       THEN [c1 EXCEPT !.pc = "done"]
       ELSE sendPrediction(c1, llmResult.word, "gpt-4.1-mini", llmResult.confidence)

\* from the return of azurePredictor.predict to the next await
afterAzure(call, llmResult) ==
  LET c1 == [call EXCEPT !.azureReturn = Return(llmResult)]
  IN IF ~truthy(llmResult.word)
       THEN [c1 EXCEPT !.pc = "done"]
       ELSE sendPrediction(c1, llmResult.word, "gpt-4.1-mini", llmResult.confidence)

\* afterTTS sending the 'audio' message whatever synthesize ended with
afterTTS_audioAlways(call, outcome) ==
  [wsSend(call, [type |-> "audio", word |-> call.predictedWord,
                 audio |-> IF outcome.throw THEN "" ELSE outcome.value])
     EXCEPT !.pc = "done"]

\* from the end of synthesize to the return
afterTTS(call, outcome) ==
  IF outcome.throw THEN handleTranscript_catch(call, outcome.error)
  ELSE [wsSend(call, [type |-> "audio", word |-> call.predictedWord,
                      audio |-> outcome.value])
          EXCEPT !.pc = "done"]

\* ragPredictor.predict up to its first pending await: it returns null at
\* once, or the embedding request is under way
predict_start(call, self) ==
  LET c1 == [call EXCEPT !.ragCalls = @ + 1]
  IN IF ~self.modelLoaded THEN afterRag(c1, Return(NullResult))
     ELSE IF searchRelevantChunks_guard(self)
       THEN afterRag([c1 EXCEPT !.searchReturn = Return(<<>>)],
                     predict_catch(Return(NullResult)))
       ELSE [c1 EXCEPT !.pc = "ragEmbed", !.embedReqs = @ + 1]

\* handleTranscript_returns without the test of session.isActive
handleTranscript_returns_activeUnchecked(s, text) ==
  s \notin DOMAIN sessions \/ trim(text) = <<>>

\* the two early returns of handleTranscript: no session or a session that is
\* not active, and a text that is empty or blank
handleTranscript_returns(s, text) ==
  s \notin DOMAIN sessions \/ ~sessions[s].isActive \/ trim(text) = <<>>

\* handleTranscript(sessionId, text) up to its first pending await; the
\* caller is the 'transcript' message or a transcription that ends late
HandleTranscript(c, s, text) ==
  /\ calls[c].pc \in {"free", "done"}
  /\ wsState[s] # "none"
  /\ LET fresh == [NewCall(c) EXCEPT !.sessionId = s, !.text = text,
                                     !.loadedAtStart = ragPredictor.modelLoaded]
     IN IF handleTranscript_returns(s, text)
          THEN /\ calls' = [calls EXCEPT ![c] = [fresh EXCEPT !.pc = "done"]]
               /\ UNCHANGED <<sessions, azurePredictor>>
          ELSE LET c1 == [fresh EXCEPT !.language = languageOf(s)]
               IN /\ Len(azurePredictor.conversationHistory) < MaxTranscripts
                  /\ sessions' = [sessions EXCEPT ![s].transcript = @ \o <<" ">> \o text]
                  /\ azurePredictor' = addToHistory(azurePredictor, text)
                  /\ calls' = [calls EXCEPT ![c] =
                                 IF useRag(ragPredictor)
                                   THEN predict_start(c1, ragPredictor)
                                   ELSE callAzure(c1)]
  /\ UNCHANGED <<added, gpt4oTranscribe, cloneRequests, realtimeConnections, realtimeClients, app,
                 written, builder, ragPredictor, sessionLanguages, wsState, reply>>

\* the embedding request of searchRelevantChunks ends: the search, the gate
\* and, past the gate, the completion request
EmbeddingReturns(c, response) ==
  /\ calls[c].pc = "ragEmbed"
  /\ LET call == calls[c]
         r == searchRelevantChunks(ragPredictor, createEmbedding(response), TopK)
         c1 == [call EXCEPT !.searchReturn = Return(r.ret)]
     IN /\ ragPredictor' = r.self
        /\ calls' = [calls EXCEPT ![c] =
                       IF predict_gate(r.ret)
                         THEN afterRag(c1, predict_catch(Return(NullResult)))
                         ELSE [c1 EXCEPT !.pc = "ragLLM",
                                           !.relevantChunks = r.ret,
                                           !.ragCompletions = @ + 1]]
  /\ UNCHANGED <<added, gpt4oTranscribe, cloneRequests, realtimeConnections, realtimeClients, app,
                 written, builder, azurePredictor, sessions, sessionLanguages, wsState, reply>>

\* the completion request of ragPredictor.predict ends
RagCompletionReturns(c, response) ==
  /\ calls[c].pc = "ragLLM"
  /\ LET call == calls[c]
         outcome == predict_catch(
                      predict_body(call.relevantChunks, response, call.language))
     IN calls' = [calls EXCEPT ![c] = afterRag(call, outcome)]
  /\ UNCHANGED <<added, gpt4oTranscribe, cloneRequests, realtimeConnections, realtimeClients, app,
                 written, builder, ragPredictor, azurePredictor, sessions, sessionLanguages,
                 wsState, reply>>

\* the completion request of azurePredictor.predict ends
AzureReturns(c, response) ==
  /\ calls[c].pc = "llm"
  /\ LET call == calls[c]
     IN calls' = [calls EXCEPT ![c] =
                    afterAzure(call, azurePredict(call.text, response))]
  /\ UNCHANGED <<added, gpt4oTranscribe, cloneRequests, realtimeConnections, realtimeClients, app,
                 written, builder, ragPredictor, azurePredictor, sessions, sessionLanguages,
                 wsState, reply>>

\* what synthesize ends with: the audio, or an error of the provider
TTSOutcomes == {Return("pcm"), Throw("Cartesia TTS API Error")}

\* activeTTSProvider.synthesize ends
TTSReturns(c, outcome) ==
  /\ calls[c].pc = "tts"
  /\ calls' = [calls EXCEPT ![c] = afterTTS(calls[c], outcome)]
  /\ UNCHANGED <<added, gpt4oTranscribe, cloneRequests, realtimeConnections, realtimeClients, app,
                 written, builder, ragPredictor, azurePredictor, sessions, sessionLanguages,
                 wsState, reply>>

----------------------------------------------------------------------------
Next ==
  \/ \E s \in SessionIds : Connect(s)
  \/ \E s \in SessionIds : Close(s)
  \/ \E s \in SessionIds, lang \in Languages \cup {Undefined} : SetLanguage(s, lang)
  \/ \E s \in SessionIds : Start(s)
  \/ \E s \in SessionIds : Stop(s)
  \/ \E f \in FileNames \cup {""} : LoadRequest(f)
  \/ UnloadRequest
  \/ \E f \in FileNames : LoadKnowledgeBase(f)
  \/ \E c \in CallIds, s \in SessionIds, t \in Texts : HandleTranscript(c, s, t)
  \/ \E c \in CallIds, r \in EmbeddingResponses : EmbeddingReturns(c, r)
  \/ \E c \in CallIds, r \in CompletionResponses : RagCompletionReturns(c, r)
  \/ \E c \in CallIds, r \in CompletionResponses : AzureReturns(c, r)
  \/ \E c \in CallIds, o \in TTSOutcomes : TTSReturns(c, o)

Spec == Init /\ [][Next]_vars

----------------------------------------------------------------------------
(* The similarity search on its own: searchRelevantChunks called on the     *)
(* store, over knowledge bases and query embeddings of every shape          *)

\* what embeddings.create answers a search with: also an embedding of norm 0
\* and one of another dimensionality
SearchEmbeddingResponses ==
  {[kind |-> "ok", embedding |-> q] : q \in {e1, e2, zero, d3}}
    \cup {[kind |-> "error"]}

\* the topK a caller passes: below, at (the default) and above the chunks
TopKs == {1, 3, 6}

\* searchRelevantChunks(query, topK), the embedding request answered by
\* response: reply keeps the scores of the map and the value returned
Search(response, topK) ==
  /\ LET queryEmbedding == createEmbedding(response)
     IN IF searchRelevantChunks_guard(ragPredictor) \/ queryEmbedding = NullVec
          THEN reply' = [op |-> "search", embedded |-> FALSE, topK |-> topK,
                         ret |-> <<>>]
          ELSE \E ret \in searchReturns(ragPredictor, queryEmbedding, topK) :
                 reply' = [op |-> "search", embedded |-> TRUE, topK |-> topK,
                           query |-> queryEmbedding,
                           scores |-> scoresOf(ragPredictor, queryEmbedding),
                           ret |-> ret]
  /\ UNCHANGED <<added, gpt4oTranscribe, cloneRequests, realtimeConnections, realtimeClients, app,
                 written, builder, ragPredictor, azurePredictor, sessions, sessionLanguages,
                 wsState, calls>>

SearchNext ==
  \/ \E f \in SearchFiles : LoadKnowledgeBase(f)
  \/ UnloadRequest
  \/ \E r \in SearchEmbeddingResponses, k \in TopKs : Search(r, k)

SpecSearch == Init /\ [][SearchNext]_vars

----------------------------------------------------------------------------
(* The plain predictor on its own: azurePredictor.predict called with any   *)
(* context, its completion request answered with any content               *)

\* the characters of the contexts and of the completions: two letters and
\* the whitespace that delimits words
PlainAlphabet == {"a", "b", " "}
\* the longest context and the longest completion
MaxContextLen == 3
MaxContentLen == 2

\* the strings over PlainAlphabet of at most n characters
stringsUpTo(n) == UNION {[1..k -> PlainAlphabet] : k \in 0..n}

\* answers of chat.completions.create to the plain predictor
PlainResponses ==
  {[kind |-> "ok", content |-> t] : t \in stringsUpTo(MaxContentLen)}
    \cup {[kind |-> "error"], [kind |-> "malformed"]}

\* azurePredictor.predict(context, userHistory, language), its completion
\* request answered by response: reply keeps the call and its result
PlainPredict(context, response) ==
  /\ reply' = [op |-> "predict", context |-> context, response |-> response,
               result |-> azurePredict(context, response)]
  /\ UNCHANGED <<added, gpt4oTranscribe, cloneRequests, realtimeConnections, realtimeClients, app,
                 written, builder, ragPredictor, azurePredictor, sessions, sessionLanguages,
                 wsState, calls>>

PlainNext ==
  \E context \in stringsUpTo(MaxContextLen), response \in PlainResponses :
    PlainPredict(context, response)

SpecPlain == Init /\ [][PlainNext]_vars

----------------------------------------------------------------------------
(* The chunker on its own: chunkText of a builder of any configuration,    *)
(* called with texts made of a few units and terminators                  *)

\* the most units a text is made of
MaxSentences == 3

\* what stands between terminators: a word, two words, a blank
ChunkUnits == { <<"a">>, <<"b", " ", "c">>, <<" ">> }
\* a terminator of each class, and the newline of both
ChunkSeparators == {".", "J", "\n"}

RECURSIVE unitsJoined(_)
\* the texts of k units
unitsJoined(k) ==
  IF k = 1 THEN ChunkUnits
  ELSE {t \o <<sep>> \o u :
          t \in unitsJoined(k - 1), sep \in ChunkSeparators, u \in ChunkUnits}

\* the texts chunkText is given
ChunkTexts == {<<>>} \cup UNION {unitsJoined(k) : k \in 1..MaxSentences}

\* the arguments of the constructor: chunkSize below a word pair, at it and
\* above; chunkOverlap for no, one and two words of overlap, and negative
ChunkSizes == {1, 3, 6}
ChunkOverlaps == {-10, 0, 10, 20}
BuilderConfigs ==
  {RAGBuilder(language, chunkSize, chunkOverlap) :
     language \in Languages, chunkSize \in ChunkSizes,
     chunkOverlap \in ChunkOverlaps}

InitChunk ==
  /\ InitServer
  /\ builder \in BuilderConfigs

\* builder.chunkText(text), the one call of a run: reply keeps the text and
\* the chunks returned
ChunkText(text) ==
  /\ builder.pc = "idle"
  /\ reply.op = "none"
  /\ reply' = [op |-> "chunkText", text |-> text, ret |-> chunkText(builder, text)]
  /\ UNCHANGED <<added, gpt4oTranscribe, cloneRequests, realtimeConnections, realtimeClients, app,
                 written, builder, ragPredictor, azurePredictor, sessions,
                 sessionLanguages, wsState, calls>>

ChunkNext == \E text \in ChunkTexts : ChunkText(text)

SpecChunk == InitChunk /\ [][ChunkNext]_vars

----------------------------------------------------------------------------
(* The loop of chunkText followed iteration by iteration, for what it does *)
(* with its buffer on the way                                              *)

\* builder.chunkText(text) is called: the split and the filter
ChunkTextCalled(text) ==
  /\ builder.pc = "idle"
  /\ builder' = [builder EXCEPT !.pc = "chunkText",
                                !.sentences = sentencesOf(builder, text),
                                !.loop = chunkText_begin]
  /\ UNCHANGED <<added, gpt4oTranscribe, cloneRequests, realtimeConnections, realtimeClients, app,
                 written, ragPredictor, azurePredictor, sessions, sessionLanguages,
                 wsState, calls, reply>>

\* the for loop takes its next sentence
ChunkTextIterates ==
  /\ builder.pc = "chunkText"
  /\ builder.sentences # <<>>
  /\ builder' = [builder EXCEPT
                   !.loop = chunkText_iteration(builder, @, Head(builder.sentences)),
                   !.sentences = Tail(@)]
  /\ UNCHANGED <<added, gpt4oTranscribe, cloneRequests, realtimeConnections, realtimeClients, app,
                 written, ragPredictor, azurePredictor, sessions, sessionLanguages,
                 wsState, calls, reply>>

\* the loop is over: the final push and the return
ChunkTextReturns ==
  /\ builder.pc = "chunkText"
  /\ builder.sentences = <<>>
  /\ builder' = [builder EXCEPT !.pc = "returned"]
  /\ reply' = [op |-> "chunkText_loop", ret |-> chunkText_end(builder.loop)]
  /\ UNCHANGED <<added, gpt4oTranscribe, cloneRequests, realtimeConnections, realtimeClients, app,
                 written, ragPredictor, azurePredictor, sessions, sessionLanguages,
                 wsState, calls>>

ChunkLoopNext ==
  \/ \E text \in ChunkTexts : ChunkTextCalled(text)
  \/ ChunkTextIterates
  \/ ChunkTextReturns

SpecChunkLoop == InitChunk /\ [][ChunkLoopNext]_vars

----------------------------------------------------------------------------
(* The build script beside the server: processText embeds the chunks of a  *)
(* text one after the other, while the server, a knowledge base loaded and *)
(* a session started, predicts                                             *)

\* the builders and the texts of the build: one and three chunks, and none
BuildConfigs == {RAGBuilder("en", 3, 10), RAGBuilder("ja", 1, 0)}
BuildTexts ==
  { <<>>, <<"a">>, <<"a", ".", "b", " ", "c", ".", "a">>,
    <<"a", "J", "b", "J", "a">> }

\* the server after a load of a.json, a connection and its 'start'
InitBuild ==
  /\ InitClone
  /\ InitRealtime
  /\ InitApp
  /\ written = << >>
  /\ ragPredictor = loadKnowledgeBase(RAGPredictor, "a.json").self
  /\ azurePredictor = AzurePredictor
  /\ sessions = [s \in SessionIds |-> [isActive |-> TRUE, transcript |-> <<>>]]
  /\ sessionLanguages = << >>
  /\ wsState = [s \in SessionIds |-> "open"]
  /\ calls = [c \in CallIds |-> NewCall(c)]
  /\ reply = [op |-> "loadKnowledgeBase", file |-> "a.json", ret |-> TRUE]
  /\ builder \in BuildConfigs

\* the loop of processText goes on to its next chunk and asks for its
\* embedding, or ends
processText_next(self) ==
  IF self.i < Len(self.textChunks)
    THEN [self EXCEPT !.i = @ + 1, !.pc = "embed",
                      !.requests = Append(@, self.textChunks[self.i + 1])]
    ELSE [self EXCEPT !.pc = "done"]

\* processText_catch asking once more for the embedding that failed
processText_catch_retrying(self) ==
  IF Len(self.requests) = self.i
    THEN [self EXCEPT !.requests = Append(@, self.textChunks[self.i])]
    ELSE processText_next(self)

\* processText_catch leaving the loop at the first error
processText_catch_aborting(self) == [self EXCEPT !.pc = "done"]

\* the catch block of processText: the error is logged and the loop goes on
processText_catch(self) == processText_next(self)

\* processText(text) to its first await: the chunks, and the request for the
\* embedding of the first
ProcessText(text) ==
  /\ builder.pc = "idle"
  /\ builder' = processText_next([builder EXCEPT !.textChunks = chunkText(builder, text)])
  /\ UNCHANGED <<added, gpt4oTranscribe, cloneRequests, realtimeConnections, realtimeClients, app,
                 written, ragPredictor, azurePredictor, sessions, sessionLanguages,
                 wsState, calls, reply>>

\* what embeddings.create answers the build script with: an embedding (vneg
\* has a negative component and norm 100), or the request fails
vneg == <<-60, 80, 0, 0, 0>>
BuildEmbeddingResponses ==
  {[kind |-> "ok", embedding |-> q] : q \in {e1, vneg}} \cup {[kind |-> "error"]}

\* the embedding request of createEmbedding ends: the chunk is pushed and
\* the loop waits its 1100 ms, or createEmbedding throws again what it caught
BuilderEmbeddingReturns(response) ==
  /\ builder.pc = "embed"
  /\ builder' =
       IF response.kind = "ok"
         THEN [builder EXCEPT
                 !.chunks = Append(@, [text |-> builder.textChunks[builder.i],
                                       embedding |-> response.embedding]),
                 !.pc = "delay"]
         ELSE processText_catch([builder EXCEPT !.failed = @ \cup {builder.i}])
  /\ UNCHANGED <<added, gpt4oTranscribe, cloneRequests, realtimeConnections, realtimeClients, app,
                 written, ragPredictor, azurePredictor, sessions, sessionLanguages,
                 wsState, calls, reply>>

\* the timer of the rate limit fires
BuilderDelayEnds ==
  /\ builder.pc = "delay"
  /\ builder' = processText_next(builder)
  /\ UNCHANGED <<added, gpt4oTranscribe, cloneRequests, realtimeConnections, realtimeClients, app,
                 written, ragPredictor, azurePredictor, sessions, sessionLanguages,
                 wsState, calls, reply>>

\* processText is over and main calls saveKnowledgeBase(outputPath,
\* outputName): the file is written and the stats are returned
SaveKnowledgeBase ==
  /\ builder.pc = "done"
  /\ LET data == saveKnowledgeBase_data(builder, "out")
     IN /\ written' = mapSet(written, OutputPath,
                             [json |-> TRUE, text |-> JSONstringify(data)])
        /\ reply' = [op |-> "saveKnowledgeBase", file |-> OutputPath,
                     ret |-> data.stats]
  /\ builder' = [builder EXCEPT !.pc = "saved"]
  /\ UNCHANGED <<added, gpt4oTranscribe, cloneRequests, realtimeConnections, realtimeClients, app,
                 ragPredictor, azurePredictor, sessions, sessionLanguages,
                 wsState, calls>>

BuildNext ==
  \/ \E c \in CallIds, s \in SessionIds, t \in Texts : HandleTranscript(c, s, t)
  \/ \E c \in CallIds, r \in EmbeddingResponses : EmbeddingReturns(c, r)
  \/ \E c \in CallIds, r \in CompletionResponses : RagCompletionReturns(c, r)
  \/ \E c \in CallIds, r \in CompletionResponses : AzureReturns(c, r)
  \/ \E c \in CallIds, o \in TTSOutcomes : TTSReturns(c, o)
  \/ \E text \in BuildTexts : ProcessText(text)
  \/ \E r \in BuildEmbeddingResponses : BuilderEmbeddingReturns(r)
  \/ BuilderDelayEnds
  \/ SaveKnowledgeBase
  \/ LoadKnowledgeBase(OutputPath)

SpecBuild == InitBuild /\ [][BuildNext]_vars

----------------------------------------------------------------------------
(* Properties of the prediction source selector (handleTranscript)         *)

\* the activation passed the checks of handleTranscript
Processed(call) == call.language # ""

\* ragPredictor.predict returned, and returned a result with a word
RagGaveWord(call) ==
  /\ call.ragReturn # NotCalled
  /\ ~call.ragReturn.throw
  /\ call.ragReturn.value # NullResult
  /\ truthy(call.ragReturn.value.word)

\* ragPredictor.predict returned null, or a result without a word
RagGaveNothing(call) ==
  /\ call.ragReturn # NotCalled
  /\ ~call.ragReturn.throw
  /\ (call.ragReturn.value = NullResult \/ ~truthy(call.ragReturn.value.word))

\* azurePredictor.predict returned
AzureReturned(call) == call.azureReturn # NotCalled

predictionsOf(call) ==
  {i \in 1..Len(call.sent) : call.sent[i].type = "prediction"}

\* C1: when ragPredictor.predict gives a result with a non-empty word for a
\* transcript, the one 'prediction' message of that transcript carries this
\* word with source 'rag' and the result's confidence, and
\* azurePredictor.predict is not called for it.
C1_RagWordSentPlainSkipped ==
  \A c \in CallIds :
    RagGaveWord(calls[c]) =>
      /\ calls[c].loadedAtStart
      /\ calls[c].azureCalls = 0
      /\ predictionsOf(calls[c]) = {1}
      /\ calls[c].sent[1] =
           [type |-> "prediction", word |-> calls[c].ragReturn.value.word,
            input |-> calls[c].text, source |-> "rag",
            confidence |-> calls[c].ragReturn.value.confidence]

\* a transcript ended after ragPredictor.predict gave it a word
C1_Witness ==
  \E c \in CallIds :
    /\ RagGaveWord(calls[c])
    /\ calls[c].pc = "done"
    /\ calls[c].ragReturn.value.word = <<"b">>

\* C2: a transcript handled while modelLoaded is false never calls
\* RAGPredictor.predict and issues no embedding request (nor a completion
\* request of the retrieval predictor); the plain predictor is called once.
C2_NoRagWhenNotLoaded ==
  \A c \in CallIds :
    (Processed(calls[c]) /\ ~calls[c].loadedAtStart) =>
      /\ calls[c].ragCalls = 0
      /\ calls[c].embedReqs = 0
      /\ calls[c].ragCompletions = 0
      /\ calls[c].ragReturn = NotCalled
      /\ calls[c].azureCalls = 1

\* a transcript handled after a load that failed on a file it could not
\* parse, the chunks of the earlier knowledge base still in memory
C2_Witness ==
  \E c \in CallIds :
    /\ Processed(calls[c]) /\ ~calls[c].loadedAtStart
    /\ calls[c].pc = "llm"
    /\ reply.op = "load" /\ reply.status = 500
    /\ Len(ragPredictor.knowledgeBase) > 0

\* C3: when ragPredictor.predict gives null or a result without a word, the
\* plain predictor is called exactly once for that transcript; its word, if
\* it has one, is the one 'prediction' sent, with the source of the plain
\* predictor; if it has none, nothing is sent.
C3_FallbackToPlain ==
  \A c \in CallIds :
    RagGaveNothing(calls[c]) =>
      /\ calls[c].azureCalls = 1
      /\ IF ~AzureReturned(calls[c])
           THEN calls[c].pc = "llm" /\ calls[c].sent = <<>>
         ELSE IF truthy(calls[c].azureReturn.value.word)
           THEN /\ predictionsOf(calls[c]) = {1}
                /\ calls[c].sent[1] =
                     [type |-> "prediction",
                      word |-> calls[c].azureReturn.value.word,
                      input |-> calls[c].text, source |-> "gpt-4.1-mini",
                      confidence |-> calls[c].azureReturn.value.confidence]
         ELSE calls[c].sent = <<>>

\* the completion of the retrieval predictor had no word in it and the word
\* of the plain predictor went out
C3_Witness ==
  \E c \in CallIds :
    /\ RagGaveNothing(calls[c])
    /\ calls[c].ragReturn.value # NullResult
    /\ AzureReturned(calls[c])
    /\ truthy(calls[c].azureReturn.value.word)
    /\ calls[c].pc = "done"

\* C4: the gate of predict.  With no search result, or a top score strictly
\* below 0.3, predict returns null and makes no completion request; with a
\* top score of 0.3 or more it makes exactly one.
C4_GateAtThreshold ==
  \A c \in CallIds :
    calls[c].searchReturn # NotCalled =>
      LET found == calls[c].searchReturn.value
      IN /\ (Len(found) = 0 \/ Lt(found[1].score, Num(3, 10))) =>
              /\ calls[c].ragCompletions = 0
              /\ calls[c].ragReturn = Return(NullResult)
         /\ (Len(found) > 0 /\ Ge(found[1].score, Num(3, 10))) =>
              calls[c].ragCompletions = 1

\* a search whose top score is exactly 0.30 (30/100), past the gate
C4_Witness ==
  \E c \in CallIds :
    /\ calls[c].searchReturn # NotCalled
    /\ Len(calls[c].searchReturn.value) > 0
    /\ calls[c].searchReturn.value[1].score = Num(30, 100)
    /\ calls[c].pc = "ragLLM"

\* C5: RAGPredictor.predict never raises: whatever the embedding request and
\* the completion request end with, it returns null or a result object, and
\* on null the caller goes on to the plain predictor.
C5_PredictNeverRaises ==
  \A c \in CallIds :
    calls[c].ragReturn # NotCalled =>
      /\ ~calls[c].ragReturn.throw
      /\ \/ calls[c].ragReturn.value = NullResult
         \/ calls[c].ragReturn.value.reasoning = "rag_prediction"
      /\ calls[c].ragReturn.value = NullResult => calls[c].azureCalls = 1

\* predict returned null after its completion request (which failed or
\* came back without a content)
C5_Witness ==
  \E c \in CallIds :
    /\ calls[c].ragCompletions = 1
    /\ calls[c].ragReturn = Return(NullResult)

\* C6: when the plain predictor returns without a word (also when its
\* completion request failed: reasoning 'error'), the transcript ends there:
\* no 'prediction', 'audio' or 'error' message, no synthesis request, and the
\* session is as registered and as active as it was.
C6_NoWordIsSilent ==
  [][\A c \in CallIds :
       (/\ ~AzureReturned(calls[c])
        /\ AzureReturned(calls'[c])
        /\ ~truthy(calls'[c].azureReturn.value.word)) =>
         /\ calls'[c].pc = "done"
         /\ calls'[c].sent = <<>>
         /\ calls'[c].ttsReqs = 0
         /\ sessions' = sessions
         /\ wsState' = wsState]_vars

\* the completion request of the plain predictor failed, nothing was sent
\* and the session is still active
C6_Witness ==
  \E c \in CallIds :
    /\ AzureReturned(calls[c])
    /\ calls[c].azureReturn.value.reasoning = "error"
    /\ calls[c].pc = "done"
    /\ calls[c].sent = <<>>
    /\ calls[c].sessionId \in DOMAIN sessions
    /\ sessions[calls[c].sessionId].isActive

----------------------------------------------------------------------------
(* Properties of the knowledge store *)

\* the files JSON.parse accepts
Parsable == {f \in DOMAIN Disk : Disk[f].json}

\* the store that holds the knowledge base of file f and nothing else
storeOf(f) ==
  [knowledgeBase |-> IF "chunks" \in DOMAIN Disk[f].data
                       THEN Disk[f].data.chunks ELSE <<>>,
   modelName |-> IF "modelName" \in DOMAIN Disk[f].data
                   THEN Disk[f].data.modelName ELSE Undefined,
   language |-> IF "language" \in DOMAIN Disk[f].data
                  THEN Disk[f].data.language ELSE "ja",
   modelLoaded |-> TRUE]

\* C7: the store holds one knowledge base or none.  A load of a file that
\* parses succeeds whatever is loaded (no 'already loaded' error) and leaves
\* the store with the chunks, modelName and language of that file alone; a
\* store that is loaded holds exactly one file's knowledge base.
C7_LoadReplaces ==
  [][/\ \A f \in Parsable :
          /\ LoadRequest(f) => (reply'.status = 200 /\ ragPredictor' = storeOf(f))
          /\ LoadKnowledgeBase(f) => (reply'.ret /\ ragPredictor' = storeOf(f))
     /\ ragPredictor'.modelLoaded => \E f \in Parsable : ragPredictor' = storeOf(f)
    ]_vars

\* a load answered 200 while another knowledge base was active
C7_Witness ==
  /\ reply.op = "load"
  /\ reply.status = 200
  /\ reply.before.loaded
  /\ reply.before.totalChunks > 0
  /\ reply.before.modelName # reply.model.modelName

\* C8: unload leaves modelLoaded false, no chunk and modelName null (the
\* language stays); a second unload in a row, and an unload of a store that
\* never held anything, change nothing.
C8_UnloadIdempotent ==
  [][UnloadRequest =>
       /\ ragPredictor' = [knowledgeBase |-> <<>>, modelLoaded |-> FALSE,
                           modelName |-> Null,
                           language |-> ragPredictor.language]
       /\ reply.op = "unload" => ragPredictor' = ragPredictor
       /\ ragPredictor = RAGPredictor => ragPredictor' = ragPredictor
    ]_vars

\* an unload of a store that an unload had cleared
C8_Witness ==
  /\ reply.op = "unload"
  /\ ~reply.before.loaded
  /\ reply.before.totalChunks = 0
  /\ reply.before.modelName = Null
  /\ ragPredictor.language = "en"

\* C9: a load of a path that is not on disk: loadKnowledgeBase returns
\* false, the endpoint answers 404, and the store is what it was.
C9_MissingFileRecoverable ==
  [][\A f \in FileNames \ DOMAIN Disk :
       /\ LoadRequest(f) => (reply'.status = 404 /\ ragPredictor' = ragPredictor)
       /\ LoadKnowledgeBase(f) => (~reply'.ret /\ ragPredictor' = ragPredictor)
    ]_vars

\* loadKnowledgeBase returned false for a missing path and the knowledge
\* base loaded before is still active
C9_Witness ==
  /\ reply.op = "loadKnowledgeBase"
  /\ reply.file \notin DOMAIN Disk
  /\ ~reply.ret
  /\ ragPredictor = storeOf("a.json")

\* C10: the store changes only in a step of load or unload: no step of
\* handleTranscript (search, predict, whatever they end with) changes
\* knowledgeBase, modelLoaded, modelName or language.
C10_PredictLeavesStore ==
  [][ragPredictor' # ragPredictor =>
       \/ UnloadRequest
       \/ \E f \in FileNames \cup {""} : LoadRequest(f)
       \/ \E f \in FileNames : LoadKnowledgeBase(f)
    ]_vars

\* a search that reordered its scores (0.29, 0.30 to 0.30, 0.29), its
\* prediction sent, and the store still the file's
C10_Witness ==
  \E c \in CallIds :
    /\ calls[c].pc = "done"
    /\ calls[c].searchReturn # NotCalled
    /\ Len(calls[c].searchReturn.value) = 2
    /\ calls[c].searchReturn.value[1].text = "tA2"
    /\ RagGaveWord(calls[c])
    /\ ragPredictor = storeOf("a.json")

----------------------------------------------------------------------------
(* Load and unload against a predict call in flight *)

\* ragPredictor.predict of an activation has begun and has not returned: it
\* waits for its embedding request or for its completion request
PredictInFlight(call) == call.pc \in {"ragEmbed", "ragLLM"}

\* C11: no load or unload takes effect between the start of a predict call
\* and its return: while a predict call waits for its embedding request (the
\* chunks are scored when it ends) or for its completion, the store stays
\* what it was when the call began.
C11_NoLoadDuringPredict ==
  [][(\E c \in CallIds : PredictInFlight(calls[c])) =>
       ragPredictor' = ragPredictor]_vars

----------------------------------------------------------------------------
(* An active knowledge base without chunks *)

\* the files that parse and have no chunks field
WithoutChunks == {f \in Parsable : "chunks" \notin DOMAIN Disk[f].data}

\* a step that begins handleTranscript for activation c and passes its checks
Begins(c) == calls[c].pc \in {"free", "done"} /\ calls'[c] # calls[c]
               /\ Processed(calls'[c])

\* C15: a file without a chunks field loads, and is the active knowledge
\* base with zero chunks; a search of an active knowledge base with zero
\* chunks returns the empty sequence (not an exception), predict returns null
\* and handleTranscript goes on to the plain predictor.
C15_EmptyKbFallsBack ==
  [][/\ \A f \in WithoutChunks :
          /\ LoadRequest(f) =>
               /\ reply'.status = 200
               /\ reply'.model.loaded /\ reply'.model.totalChunks = 0
               /\ ragPredictor'.modelLoaded /\ ragPredictor'.knowledgeBase = <<>>
          /\ LoadKnowledgeBase(f) =>
               /\ reply'.ret
               /\ ragPredictor'.modelLoaded /\ ragPredictor'.knowledgeBase = <<>>
     /\ \A c \in CallIds :
          (/\ ragPredictor.modelLoaded /\ ragPredictor.knowledgeBase = <<>>
           /\ Begins(c) \/ (calls[c].pc = "ragEmbed" /\ calls'[c] # calls[c])) =>
             /\ calls'[c].searchReturn = Return(<<>>)
             /\ calls'[c].ragReturn = Return(NullResult)
             /\ calls'[c].ragCompletions = 0
             /\ calls'[c].azureCalls = 1
             /\ calls'[c].pc = "llm"
    ]_vars

\* e.json, which has no chunks field, was loaded and answered 200 with zero
\* chunks; a transcript then searched it, got nothing without an embedding
\* request, and waits for the plain predictor
C15_Witness ==
  \E c \in CallIds :
    /\ reply.op = "load" /\ reply.file = "e.json" /\ reply.status = 200
    /\ reply.model.totalChunks = 0
    /\ ragPredictor = storeOf("e.json")
    /\ calls[c].loadedAtStart
    /\ calls[c].embedReqs = 0
    /\ calls[c].searchReturn = Return(<<>>)
    /\ calls[c].ragReturn = Return(NullResult)
    /\ calls[c].pc = "llm"

----------------------------------------------------------------------------
(* Properties of the similarity search *)

\* the last operation was a search that embedded its query and scored the
\* chunks of the store (the store is what it was: a search leaves it alone)
Searched == reply.op = "search" /\ reply.embedded

\* the place of a result's chunk in the knowledge base (texts differ)
placeOf(result) ==
  CHOOSE i \in 1..Len(ragPredictor.knowledgeBase) :
    ragPredictor.knowledgeBase[i].text = result.text

\* C12: a search of a loaded knowledge base of N chunks with an embedded
\* query returns min(topK, N) results, every score at least the scores after
\* it (score[i] >= score[j] for i before j), equal scores in the order of
\* their chunks; scores 0.9, 0.1, 0.5, 0.8, 0.3 with topK = 3 give
\* 0.9, 0.8, 0.5.
C12_SearchSortedTopK ==
  Searched =>
    LET ret == reply.ret
        N == Len(ragPredictor.knowledgeBase)
    IN /\ Len(ret) = Min(reply.topK, N)
       /\ \A i, j \in 1..Len(ret) :
            i < j =>
              /\ Ge(ret[i].score, ret[j].score)
              /\ NumEq(ret[i].score, ret[j].score) =>
                   placeOf(ret[i]) < placeOf(ret[j])
       /\ (reply.scores = << [text |-> "tF1", score |-> Num(90, 100)],
                             [text |-> "tF2", score |-> Num(10, 100)],
                             [text |-> "tF3", score |-> Num(50, 100)],
                             [text |-> "tF4", score |-> Num(80, 100)],
                             [text |-> "tF5", score |-> Num(30, 100)] >>
             /\ reply.topK = 3) =>
            ret = << [text |-> "tF1", score |-> Num(90, 100)],
                     [text |-> "tF4", score |-> Num(80, 100)],
                     [text |-> "tF3", score |-> Num(50, 100)] >>

\* C13: no score of a search is NaN: a chunk or a query of norm 0 scores 0.
C13_NoNaNScore ==
  Searched =>
    /\ \A i \in 1..Len(reply.scores) : ~IsNaN(reply.scores[i].score)
    /\ \A i \in 1..Len(reply.ret) : ~IsNaN(reply.ret[i].score)

\* C14: a chunk without an embedding, or with one of another length than the
\* query's, scores exactly 0; every other chunk scores its dot product over
\* the product of the norms; and the search returns its min(topK, N) results.
C14_MismatchScoresZero ==
  Searched =>
    /\ Len(reply.ret) = Min(reply.topK, Len(ragPredictor.knowledgeBase))
    /\ \A i \in 1..Len(ragPredictor.knowledgeBase) :
         LET vec == embeddingOf(ragPredictor.knowledgeBase[i])
             q == reply.query
         IN /\ reply.scores[i].text = ragPredictor.knowledgeBase[i].text
            /\ IF vec = NullVec \/ Len(vec) # Len(q)
                 THEN reply.scores[i].score = Num(0, 1)
                 ELSE reply.scores[i].score =
                        Num(SumProd(q, vec, Len(q)),
                            sqrt(SumProd(q, q, Len(q)))
                              * sqrt(SumProd(vec, vec, Len(vec))))

\* a search of mixed.json: the chunk of three dimensions and the chunk
\* without an embedding score 0, the third scores 0.9 and comes first
C14_Witness ==
  /\ Searched
  /\ reply.query = e1
  /\ reply.scores = << [text |-> "tM1", score |-> Num(0, 1)],
                       [text |-> "tM2", score |-> Num(0, 1)],
                       [text |-> "tM3", score |-> Num(90, 100)] >>
  /\ reply.ret = << [text |-> "tM3", score |-> Num(90, 100)],
                    [text |-> "tM1", score |-> Num(0, 1)],
                    [text |-> "tM2", score |-> Num(0, 1)] >>

\* C16: after a load the chunks of the active knowledge base all have an
\* embedding, of one length; a file whose embeddings differ in length does
\* not become active.
C16_UniformDimension ==
  ragPredictor.modelLoaded =>
    \A i, j \in 1..Len(ragPredictor.knowledgeBase) :
      /\ embeddingOf(ragPredictor.knowledgeBase[i]) # NullVec
      /\ Len(embeddingOf(ragPredictor.knowledgeBase[i]))
           = Len(embeddingOf(ragPredictor.knowledgeBase[j]))

----------------------------------------------------------------------------
(* The confidence of a retrieval prediction *)

\* ragPredictor.predict returned a result object
RagGaveResult(call) ==
  /\ call.ragReturn # NotCalled
  /\ ~call.ragReturn.throw
  /\ call.ragReturn.value # NullResult

\* C18: in every result of RAGPredictor.predict that is not null, confidence
\* and topSimilarity are the score of the first result of the search, and a
\* 'prediction' message with source 'rag' carries that score as confidence,
\* whatever the completion was.
C18_ConfidenceIsTopScore ==
  \A c \in CallIds :
    /\ RagGaveResult(calls[c]) =>
         /\ calls[c].searchReturn # NotCalled
         /\ Len(calls[c].searchReturn.value) > 0
         /\ calls[c].ragReturn.value.confidence
              = calls[c].searchReturn.value[1].score
         /\ calls[c].ragReturn.value.topSimilarity
              = calls[c].searchReturn.value[1].score
    /\ \A i \in predictionsOf(calls[c]) :
         calls[c].sent[i].source = "rag" =>
           /\ calls[c].searchReturn # NotCalled
           /\ Len(calls[c].searchReturn.value) > 0
           /\ calls[c].sent[i].confidence = calls[c].searchReturn.value[1].score

\* a word of the retrieval predictor went out with confidence 0.30, the
\* score of the first of two results
C18_Witness ==
  \E c \in CallIds :
    /\ RagGaveWord(calls[c])
    /\ Len(calls[c].searchReturn.value) = 2
    /\ calls[c].searchReturn.value[1].score = Num(30, 100)
    /\ calls[c].searchReturn.value[2].score = Num(29, 100)
    /\ Len(calls[c].sent) > 0
    /\ calls[c].sent[1].source = "rag"
    /\ calls[c].sent[1].confidence = Num(30, 100)

----------------------------------------------------------------------------
(* Properties of the plain predictor *)

\* C17: when the word predicted (the first token of the completion) is a
\* substring of the last whitespace-delimited word of the context, predict
\* returns word null with reasoning 'duplicate_avoided'; so for a context
\* without whitespace that ends in the predicted word.
C17_DuplicateSuppressed ==
  (reply.op = "predict" /\ reply.response.kind = "ok") =>
    LET word == trim(splitFirst(trim(reply.response.content)))
        lastWord == splitLast(trim(reply.context))
    IN (word # <<>> /\ lastWord # <<>> /\ includes(lastWord, word)) =>
         /\ reply.result.word = NullStr
         /\ reply.result.reasoning = "duplicate_avoided"

----------------------------------------------------------------------------
(* Properties of the chunker *)

RECURSIVE inOrderFrom(_, _, _, _)
\* sentence i and those after it each lie whole in a chunk, the chunk of a
\* sentence not before the chunk of the sentence ahead of it (from chunk j)
inOrderFrom(sentences, chunks, i, j) ==
  IF i > Len(sentences) THEN TRUE
  ELSE LET hits == {k \in j..Len(chunks) : includes(chunks[k], trim(sentences[i]))}
       IN /\ hits # {}
          /\ inOrderFrom(sentences, chunks, i + 1,
                         CHOOSE k \in hits : \A l \in hits : k <= l)

\* C20: chunkText drops no sentence: every sentence of the text that is not
\* blank lies whole in a chunk, the sentences in their order over the
\* chunks, whatever the language, chunkSize and chunkOverlap, also a sentence
\* longer than chunkSize.
C20_NoSentenceDropped ==
  reply.op = "chunkText" =>
    inOrderFrom(sentencesOf(builder, reply.text), reply.ret, 1, 1)

\* three sentences, the second longer than chunkSize, in three chunks: the
\* long one whole in the second, behind the word of overlap
C20_Witness ==
  /\ reply.op = "chunkText"
  /\ builder.chunkSize = 1 /\ builder.chunkOverlap = 10
  /\ sentencesOf(builder, reply.text) = << <<"a">>, <<"b", " ", "c">>, <<"a">> >>
  /\ reply.ret = << <<"a">>, <<"a", " ", "b", " ", "c">>, <<"c", " ", "a">> >>

----------------------------------------------------------------------------
(* No retries *)

\* C19: a call of RAGPredictor.predict makes at most one embedding request
\* and at most one completion request; processText asks for the embedding of
\* each chunk exactly once, in order, also when a request fails.
C19_NoRetries ==
  /\ \A c \in CallIds :
       /\ calls[c].ragCalls <= 1
       /\ calls[c].embedReqs <= 1
       /\ calls[c].ragCompletions <= 1
  /\ builder.pc \in {"embed", "delay"} =>
       builder.requests = SubSeq(builder.textChunks, 1, builder.i)
  /\ builder.pc = "done" => builder.requests = builder.textChunks

\* processText ended for three chunks, the embedding of one of them failed
\* and it was asked for once; a predict call ended after one embedding
\* request and one completion request, its completion failed
C19_Witness ==
  /\ builder.pc = "done"
  /\ Len(builder.textChunks) = 3
  /\ Len(builder.chunks) = 2
  /\ builder.requests = builder.textChunks
  /\ \E c \in CallIds :
       /\ calls[c].embedReqs = 1
       /\ calls[c].ragCompletions = 1
       /\ calls[c].ragReturn = Return(NullResult)

----------------------------------------------------------------------------
(* Properties of the buffer of chunkText *)

\* the loop of chunkText has just appended a sentence to a buffer that was
\* not empty
Appended == builder.pc = "chunkText" /\ builder.loop.branch = "append"
              /\ builder.loop.flushed # <<>>

\* C21: a sentence is appended to a buffer that is not empty only when the
\* buffer after the append, its joining space counted, has at most chunkSize
\* characters: a buffer that grew by an append is no longer than chunkSize.
C21_AppendWithinChunkSize ==
  Appended => Len(builder.loop.currentChunk) <= builder.chunkSize

\* the loop of chunkText has just flushed its buffer
Flushed == builder.pc = "chunkText" /\ builder.loop.branch = "flush"

\* the last k of words, all of them when there are fewer, none for k = 0
lastWords(words, k) ==
  SubSeq(words, (IF Len(words) > k THEN Len(words) - k ELSE 0) + 1, Len(words))

\* C22: after a flush the buffer is the last floor(chunkOverlap / 10)
\* whitespace-delimited words of the flushed buffer (all of them if it has
\* fewer, none when floor(chunkOverlap / 10) is 0) followed by the next
\* sentence.
C22_OverlapWords ==
  (Flushed /\ builder.chunkOverlap >= 0) =>
    splitWords(trim(builder.loop.currentChunk))
      = lastWords(splitWords(trim(builder.loop.flushed)),
                  builder.chunkOverlap \div 10)
          \o splitWords(builder.loop.sentence)

\* C23: chunkText of the empty text, or of a text of terminators and
\* whitespace alone, returns no chunk; and no chunk it returns, for any text,
\* is empty or blank.
C23_NoBlankChunk ==
  reply.op = "chunkText" =>
    /\ (\A n \in 1..Len(reply.text) :
          reply.text[n] \in Terminators(builder.language) \cup Whitespace)
         => reply.ret = <<>>
    /\ \A k \in 1..Len(reply.ret) : trim(reply.ret[k]) # <<>>

\* a text of a blank, a terminator and a blank gave no chunk
C23_Witness ==
  /\ reply.op = "chunkText"
  /\ builder.language = "en"
  /\ reply.text = <<" ", ".", " ">>
  /\ reply.ret = <<>>

----------------------------------------------------------------------------
(* Properties of the build and of the file it saves *)

\* saveKnowledgeBase has written its file
Saved == OutputPath \in DOMAIN written

\* the content of that file, as JSON.parse reads it
savedData == JSONparse(OutputPath).value

\* C24: the saved knowledge base has stats.totalChunks equal to the number
\* of its chunks and stats.avgChunkLength equal to the mean length of their
\* texts, a number, which is 0 when there is no chunk.
C24_StatsOfSavedFile ==
  Saved =>
    LET n == Len(savedData.chunks)
        avg == savedData.stats.avgChunkLength
    IN /\ savedData.stats.totalChunks = n
       /\ avg # NullResult
       /\ NumEq(avg, IF n = 0 THEN Num(0, 1)
                     ELSE Num(sumTextLength(savedData.chunks), n))

\* C25: a load of the file saveKnowledgeBase wrote succeeds and leaves the
\* store active with the chunks of the builder: as many, in their order,
\* each with its text and the values of its embedding; getModelInfo reports
\* their number as totalChunks.
C25_RoundTrip ==
  [][(Saved /\ LoadKnowledgeBase(OutputPath)) =>
       /\ reply'.ret
       /\ ragPredictor'.modelLoaded
       /\ ragPredictor'.knowledgeBase = builder.chunks
       /\ getModelInfo(ragPredictor').totalChunks = Len(builder.chunks)]_vars

\* the saved file was loaded: two chunks, one with the embedding that has a
\* negative component, are in the store as the builder holds them
C25_Witness ==
  /\ reply.op = "loadKnowledgeBase"
  /\ reply.file = OutputPath
  /\ reply.ret
  /\ builder.pc = "saved"
  /\ Len(builder.chunks) = 2
  /\ builder.chunks[2].embedding = vneg
  /\ ragPredictor.knowledgeBase = builder.chunks
  /\ ragPredictor.modelName = "out"

RECURSIVE succeeded(_, _, _)
\* the first n chunks of textChunks less those at the places in failed
succeeded(textChunks, failed, n) ==
  IF n = 0 THEN <<>>
  ELSE IF n \in failed THEN succeeded(textChunks, failed, n - 1)
  ELSE Append(succeeded(textChunks, failed, n - 1), textChunks[n])

\* the texts of the chunks of the builder
textsOf(chunks) == [k \in 1..Len(chunks) |-> chunks[k].text]

\* C26: an embedding request that fails skips its chunk alone: the loop
\* asks for every chunk in order and ends; the chunks of the builder are, all
\* along, the chunks whose request succeeded, in the order of the text; and
\* the file saved holds exactly these.
C26_FailureSkipsOneChunk ==
  /\ builder.pc = "embed" =>
       textsOf(builder.chunks)
         = succeeded(builder.textChunks, builder.failed, builder.i - 1)
  /\ builder.pc = "delay" =>
       textsOf(builder.chunks)
         = succeeded(builder.textChunks, builder.failed, builder.i)
  /\ builder.pc \in {"done", "saved"} =>
       /\ builder.i = Len(builder.textChunks)
       /\ builder.requests = builder.textChunks
       /\ textsOf(builder.chunks)
            = succeeded(builder.textChunks, builder.failed,
                        Len(builder.textChunks))
  /\ builder.pc = "saved" =>
       /\ Saved
       /\ savedData.chunks = builder.chunks

\* a build of three chunks was saved: the request of the second failed, the
\* first and the third are in the file
C26_Witness ==
  /\ builder.pc = "saved"
  /\ Len(builder.textChunks) = 3
  /\ builder.failed = {2}
  /\ Saved
  /\ textsOf(savedData.chunks) = <<builder.textChunks[1], builder.textChunks[3]>>

\* C27: between two consecutive embedding requests of processText the delay
\* of 1100 ms elapses: every request after the first is made by the step in
\* which the timer of the delay fires, whether the request before it
\* succeeded or failed.
C27_Throttled ==
  [][(/\ Len(builder'.requests) > Len(builder.requests)
      /\ Len(builder.requests) > 0) =>
       builder.pc = "delay"]_vars

----------------------------------------------------------------------------
(* Properties of the store between loads *)

\* C28: a store that is not active is empty: whenever modelLoaded is false
\* (at the start, after an unload, after a load that failed, also on a file
\* that does not parse after a load that succeeded) there is no chunk and
\* modelName is null, and getModelInfo does not report loaded = false with
\* totalChunks > 0.
C28_InactiveStoreEmpty ==
  ~ragPredictor.modelLoaded =>
    /\ ragPredictor.knowledgeBase = <<>>
    /\ ragPredictor.modelName = Null
    /\ getModelInfo(ragPredictor).totalChunks = 0

----------------------------------------------------------------------------
(* Properties of the sessions *)

\* a step that begins handleTranscript for activation c
Arrives(c) == calls[c].pc \in {"free", "done"} /\ calls'[c] # calls[c]

\* C29: a transcript for a session that is unknown or not active, or with a
\* text that is empty or blank, is not processed: handleTranscript returns
\* at once, the conversation history and the session are what they were, no
\* predictor is called, no synthesis is asked for and nothing is sent.
C29_TranscriptIgnored ==
  [][\A c \in CallIds :
       (/\ Arrives(c)
        /\ \/ calls'[c].sessionId \notin DOMAIN sessions
           \/ ~sessions[calls'[c].sessionId].isActive
           \/ trim(calls'[c].text) = <<>>) =>
         /\ azurePredictor' = azurePredictor
         /\ sessions' = sessions
         /\ calls'[c].pc = "done"
         /\ calls'[c].sent = <<>>
         /\ calls'[c].ragCalls = 0
         /\ calls'[c].embedReqs = 0
         /\ calls'[c].azureCalls = 0
         /\ calls'[c].ttsReqs = 0]_vars

\* a transcript with a word came for a connected session that was not
\* active: it ended at once and the history is empty
C29_Witness ==
  \E c \in CallIds :
    /\ calls[c].pc = "done"
    /\ calls[c].text = <<"a">>
    /\ ~Processed(calls[c])
    /\ calls[c].sessionId \in DOMAIN sessions
    /\ ~sessions[calls[c].sessionId].isActive
    /\ calls[c].sent = <<>>
    /\ calls[c].azureCalls = 0
    /\ azurePredictor.conversationHistory = <<>>

\* C30: once 'stop' has set isActive to false, or the socket has closed (the
\* session is deleted), no 'prediction' and no 'audio' message is sent for
\* that session, also not by a transcript whose prediction or synthesis was
\* under way: these messages are sent only for a session that exists and is
\* active.
C30_NoSendAfterStop ==
  [][\A c \in CallIds :
       (/\ Len(calls'[c].sent) > Len(calls[c].sent)
        /\ calls'[c].sent[Len(calls'[c].sent)].type \in {"prediction", "audio"}) =>
         /\ calls[c].sessionId \in DOMAIN sessions
         /\ sessions[calls[c].sessionId].isActive]_vars

----------------------------------------------------------------------------
(* Properties of the order of the messages of one transcript *)

\* the types of the messages an activation has sent, in order
sentTypes(call) == [i \in DOMAIN call.sent |-> call.sent[i].type]

\* C31: for a processed transcript the 'prediction' message for the
\* predicted word is sent before synthesis starts, and the 'audio' message
\* for that word only after synthesis has ended; when synthesis fails the
\* prediction has been sent already, no 'audio' is sent and an 'error'
\* message is sent instead.
C31_PredictionBeforeAudio ==
  [][\A c \in CallIds :
       /\ calls'[c].ttsReqs > calls[c].ttsReqs =>
            /\ calls'[c].pc = "tts"
            /\ sentTypes(calls'[c]) = <<"prediction">>
            /\ calls'[c].sent[1].word = calls'[c].predictedWord
       /\ \A o \in TTSOutcomes :
            TTSReturns(c, o) =>
              /\ sentTypes(calls[c]) = <<"prediction">>
              /\ calls'[c].pc = "done"
              /\ IF o.throw
                   THEN calls'[c].sent =
                          Append(calls[c].sent,
                                 [type |-> "error", message |-> o.error])
                   ELSE calls'[c].sent =
                          Append(calls[c].sent,
                                 [type |-> "audio",
                                  word |-> calls[c].sent[1].word,
                                  audio |-> o.value])
       /\ (\E i \in DOMAIN calls'[c].sent : calls'[c].sent[i].type = "audio") =>
            /\ calls'[c].pc = "done"
            /\ sentTypes(calls'[c]) = <<"prediction", "audio">>]_vars

\* a transcript whose synthesis failed: the prediction went out, then the
\* error, and no audio
C31_Witness ==
  \E c \in CallIds :
    /\ calls[c].pc = "done"
    /\ calls[c].ttsReqs = 1
    /\ sentTypes(calls[c]) = <<"prediction", "error">>
    /\ calls[c].sent[1].word = calls[c].predictedWord

----------------------------------------------------------------------------
(* The conversation history: addToHistory and reset, called by a processed  *)
(* transcript, by /api/reset and by /api/clone-voice.  A clone request runs *)
(* from its arrival to its first pending await, and from the end of one     *)
(* await to the next or to its response.  An absent audioData or transcript *)
(* is the empty text: the handler only tests them for falsity.              *)

\* the number of texts added to the history in one run
MaxAdded == 11

RequestIds == {"r1"}

\* the texts of the history and of a self-introduction
HistoryTexts == { <<"a">>, <<"b">> }

\* reset()
reset(self) == [self EXCEPT !.conversationHistory = <<>>]

\* the audioData of a request: none, base64 without the data-URL head, a
\* data URL
AudioDatas == { <<>>, <<"A">>, <<"d", ",", "A">> }

\* Buffer.from(audioData.split(',')[1], 'base64'): the part between the
\* first comma and the next; without a comma split gives one part, [1] is
\* undefined and Buffer.from throws
bufferOf(audioData) ==
  LET commas == {i \in DOMAIN audioData : audioData[i] = ","}
  IN IF commas = {} THEN Throw("TypeError")
     ELSE LET first == CHOOSE i \in commas : \A j \in commas : i <= j
              later == {j \in commas : j > first}
              stop == IF later = {} THEN Len(audioData) + 1
                      ELSE CHOOSE j \in later : \A k \in later : j <= k
          IN Return(SubSeq(audioData, first + 1, stop - 1))

\* a request before it arrives
NewCloneRequest ==
  [pc |-> "free", transcript |-> <<>>, status |-> 0, error |-> ""]

\* res.status(status).json({success, error})
respond(req, status, error) ==
  [req EXCEPT !.pc = "done", !.status = status, !.error = error]

\* !transcript || transcript.trim().length === 0
noTranscript(transcript) == transcript = <<>> \/ trim(transcript) = <<>>

\* the handler up to its first pending await
cloneVoice_start(audioData, transcript, transcriber) ==
  LET req == [NewCloneRequest EXCEPT !.transcript = transcript]
  IN IF audioData = <<>> THEN respond(req, 400, "Missing audioData")
     ELSE IF bufferOf(audioData).throw
       THEN respond(req, 500, "Voice cloning failed")
     ELSE IF noTranscript(transcript)
       THEN IF transcriber THEN [req EXCEPT !.pc = "transcribe"]
            ELSE respond(req, 400, "No transcript and GPT-4o not available")
     ELSE [req EXCEPT !.pc = "cloneVoice"]

\* from the end of gpt4oTranscribe.transcribe to the next await
cloneVoice_afterTranscribe(req, outcome) ==
  IF outcome.throw THEN respond(req, 400, "Transcription failed")
  ELSE LET r1 == [req EXCEPT !.transcript = outcome.value]
       IN IF noTranscript(outcome.value)
            THEN respond(r1, 400, "Empty transcript")
            ELSE [r1 EXCEPT !.pc = "cloneVoice"]

\* cloneVoice_afterClone adding the transcript without the reset
cloneVoice_afterClone_withoutReset(req, self, outcome) ==
  IF outcome.throw
    THEN [req |-> respond(req, 500, "Voice cloning failed"), self |-> self]
    ELSE [req |-> respond(req, 200, ""),
          self |-> addToHistory(self, req.transcript)]

\* from the end of activeTTSProvider.cloneVoice to the response
cloneVoice_afterClone(req, self, outcome) ==
  IF outcome.throw
    THEN [req |-> respond(req, 500, "Voice cloning failed"), self |-> self]
    ELSE [req |-> respond(req, 200, ""),
          self |-> addToHistory(reset(self), req.transcript)]

InitHistory ==
  /\ InitRealtime
  /\ InitApp
  /\ written = << >>
  /\ ragPredictor = RAGPredictor
  /\ azurePredictor = AzurePredictor
  /\ sessions = << >>
  /\ sessionLanguages = << >>
  /\ wsState = [s \in SessionIds |-> "none"]
  /\ calls = [c \in CallIds |-> NewCall(c)]
  /\ reply = [op |-> "none"]
  /\ builder = NoBuilder
  /\ added = << >>
  /\ gpt4oTranscribe \in BOOLEAN
  /\ cloneRequests = [r \in RequestIds |-> NewCloneRequest]

\* azurePredictor.addToHistory(text) of a processed transcript
AddToHistory(text) ==
  /\ Len(added) < MaxAdded
  /\ azurePredictor' = addToHistory(azurePredictor, text)
  /\ added' = Append(added, text)
  /\ UNCHANGED <<gpt4oTranscribe, cloneRequests, realtimeConnections,
                 realtimeClients, app, written, builder, ragPredictor,
                 sessions, sessionLanguages, wsState, calls, reply>>

\* POST /api/reset
ResetRequest ==
  /\ azurePredictor' = reset(azurePredictor)
  /\ added' = << >>
  /\ UNCHANGED <<gpt4oTranscribe, cloneRequests, realtimeConnections,
                 realtimeClients, app, written, builder, ragPredictor,
                 sessions, sessionLanguages, wsState, calls, reply>>

\* POST /api/clone-voice arrives
CloneVoice(r, audioData, transcript) ==
  /\ cloneRequests[r].pc \in {"free", "done"}
  /\ cloneRequests' = [cloneRequests EXCEPT ![r] =
                         cloneVoice_start(audioData, transcript, gpt4oTranscribe)]
  /\ UNCHANGED <<added, gpt4oTranscribe, realtimeConnections,
                 realtimeClients, app, written, builder, ragPredictor,
                 azurePredictor, sessions, sessionLanguages, wsState, calls,
                 reply>>

\* what transcribe ends with: result.text || '', or an error
TranscribeOutcomes ==
  { Return(<<>>), Return(<<" ">>), Return(<<"b">>),
    Throw("GPT-4o Transcribe error") }

\* gpt4oTranscribe.transcribe ends
TranscribeReturns(r, outcome) ==
  /\ cloneRequests[r].pc = "transcribe"
  /\ cloneRequests' = [cloneRequests EXCEPT ![r] =
                         cloneVoice_afterTranscribe(cloneRequests[r], outcome)]
  /\ UNCHANGED <<added, gpt4oTranscribe, realtimeConnections,
                 realtimeClients, app, written, builder, ragPredictor,
                 azurePredictor, sessions, sessionLanguages, wsState, calls,
                 reply>>

\* what cloneVoice ends with: a voice id, or an error
CloneOutcomes == { Return("voice"), Throw("Voice cloning failed") }

\* activeTTSProvider.cloneVoice ends
CloneVoiceReturns(r, outcome) ==
  /\ cloneRequests[r].pc = "cloneVoice"
  /\ LET end == cloneVoice_afterClone(cloneRequests[r], azurePredictor, outcome)
     IN /\ cloneRequests' = [cloneRequests EXCEPT ![r] = end.req]
        /\ azurePredictor' = end.self
        /\ added' = IF outcome.throw THEN added
                    ELSE <<cloneRequests[r].transcript>>
  /\ UNCHANGED <<gpt4oTranscribe, realtimeConnections, realtimeClients, app,
                 written, builder, ragPredictor, sessions, sessionLanguages,
                 wsState, calls, reply>>

HistoryNext ==
  \/ \E t \in HistoryTexts : AddToHistory(t)
  \/ ResetRequest
  \/ \E r \in RequestIds, a \in AudioDatas, t \in HistoryTexts \cup {<<>>, <<" ">>} :
       CloneVoice(r, a, t)
  \/ \E r \in RequestIds, o \in TranscribeOutcomes : TranscribeReturns(r, o)
  \/ \E r \in RequestIds, o \in CloneOutcomes : CloneVoiceReturns(r, o)

SpecHistory == InitHistory /\ [][HistoryNext]_vars

\* the last k elements of a sequence
lastOf(seq, k) == SubSeq(seq, Len(seq) - k + 1, Len(seq))

\* C32: the conversation history never holds more than 10 utterances: it is
\* the last min(10, k) of the k texts added since the most recent reset, in
\* the order they were added, the oldest dropped first.
C32_HistoryIsLastTen ==
  /\ Len(azurePredictor.conversationHistory) <= 10
  /\ azurePredictor.conversationHistory = lastOf(added, Min(10, Len(added)))

\* an eleventh text was added: the history holds ten, and its first is the
\* second text added, which differs from the first
C32_Witness ==
  /\ Len(added) = 11
  /\ added[1] # added[2]
  /\ Len(azurePredictor.conversationHistory) = 10
  /\ azurePredictor.conversationHistory[1] = added[2]
  /\ azurePredictor.conversationHistory[10] = added[11]

\* C33: a /api/clone-voice request that succeeds leaves the history holding
\* the self-introduction transcript and nothing else; a step of a request
\* that does not succeed (audioData missing, no transcription service, the
\* transcription failed or was empty, the cloning failed, or an await still
\* pending) leaves the history as it was.
C33_CloneResetsHistory ==
  [][\A r \in RequestIds :
       cloneRequests'[r] # cloneRequests[r] =>
         IF cloneRequests'[r].status = 200
           THEN /\ ~noTranscript(cloneRequests'[r].transcript)
                /\ azurePredictor'.conversationHistory =
                     <<cloneRequests'[r].transcript>>
           ELSE azurePredictor' = azurePredictor]_vars

\* a request without a transcript succeeded with the transcription's text:
\* the history is that text alone
C33_Witness ==
  \E r \in RequestIds :
    /\ gpt4oTranscribe
    /\ cloneRequests[r].pc = "done"
    /\ cloneRequests[r].status = 200
    /\ cloneRequests[r].transcript = <<"b">>
    /\ azurePredictor.conversationHistory = <<cloneRequests[r].transcript>>
    /\ added = <<cloneRequests[r].transcript>>

\* a request failed in the cloning while the history held a text
C33_WitnessFailure ==
  \E r \in RequestIds :
    /\ cloneRequests[r].status = 500
    /\ cloneRequests[r].transcript # <<>>
    /\ azurePredictor.conversationHistory # <<>>

----------------------------------------------------------------------------
(* server.js: 'start_realtime' and 'stop_realtime', and the events of the   *)
(* sockets and timers of the RealtimeTranscribe objects.  The endpoint is   *)
(* configured, so new WebSocket(url) itself does not throw.                 *)

\* the sockets one object makes in a run
MaxSockets == 6

\* the RealtimeTranscribe objects of a run
ClientIds == {1, 2}

\* case 'start_realtime' up to await rtTranscribe.connect(language)
StartRealtime(s) ==
  /\ wsState[s] = "open"
  /\ \E k \in ClientIds \ DOMAIN realtimeClients :
       /\ \A j \in ClientIds \ DOMAIN realtimeClients : k <= j
       /\ realtimeClients' =
            mapSet(realtimeClients, k,
                   [connect(RealtimeTranscribe) EXCEPT !.session = s,
                                                       !.awaiting = TRUE])
  /\ UNCHANGED <<added, gpt4oTranscribe, cloneRequests, realtimeConnections, app,
                 written, builder, ragPredictor, azurePredictor, sessions,
                 sessionLanguages, wsState, calls, reply>>

\* case 'stop_realtime'
StopRealtime(s) ==
  /\ wsState[s] = "open"
  /\ LET r == stopRealtime(realtimeConnections, realtimeClients, s)
     IN /\ realtimeConnections' = r.conns
        /\ realtimeClients' = r.clients
  /\ UNCHANGED <<added, gpt4oTranscribe, cloneRequests, app,
                 written, builder, ragPredictor, azurePredictor, sessions,
                 sessionLanguages, wsState, calls, reply>>

\* socket i of object k opens: the 'open' handler, and when the handler of
\* 'start_realtime' awaits this connect, its continuation:
\* realtimeConnections.set(sessionId, rtTranscribe)
SocketOpens(k, i) ==
  /\ k \in DOMAIN realtimeClients
  /\ i \in DOMAIN realtimeClients[k].sockets
  /\ realtimeClients[k].sockets[i] = "connecting"
  /\ LET self == realtimeClients[k]
     IN /\ realtimeClients' =
             [realtimeClients EXCEPT ![k] =
                [wsOnOpen(self, i) EXCEPT !.awaiting = FALSE]]
        /\ realtimeConnections' =
             IF self.awaiting THEN mapSet(realtimeConnections, self.session, k)
             ELSE realtimeConnections
  /\ UNCHANGED <<added, gpt4oTranscribe, cloneRequests, app,
                 written, builder, ragPredictor, azurePredictor, sessions,
                 sessionLanguages, wsState, calls, reply>>

\* socket i of object k fails to connect: the 'error' handler rejects the
\* promise of connect (the handler of 'start_realtime', when it awaits it,
\* reports the error and ends), then the 'close' handler runs
SocketFails(k, i) ==
  /\ k \in DOMAIN realtimeClients
  /\ i \in DOMAIN realtimeClients[k].sockets
  /\ realtimeClients[k].sockets[i] = "connecting"
  /\ realtimeClients' =
       [realtimeClients EXCEPT ![k] =
          [wsOnClose(realtimeClients[k], i) EXCEPT !.awaiting = FALSE]]
  /\ UNCHANGED <<added, gpt4oTranscribe, cloneRequests, realtimeConnections, app,
                 written, builder, ragPredictor, azurePredictor, sessions,
                 sessionLanguages, wsState, calls, reply>>

\* the 'close' event of socket i of object k: the peer or the network ended
\* an open socket, or close() was called on it
SocketCloses(k, i) ==
  /\ k \in DOMAIN realtimeClients
  /\ i \in DOMAIN realtimeClients[k].sockets
  /\ realtimeClients[k].sockets[i] \in {"open", "closing"}
  /\ realtimeClients' =
       [realtimeClients EXCEPT ![k] = wsOnClose(realtimeClients[k], i)]
  /\ UNCHANGED <<added, gpt4oTranscribe, cloneRequests, realtimeConnections, app,
                 written, builder, ragPredictor, azurePredictor, sessions,
                 sessionLanguages, wsState, calls, reply>>

\* a timer of handleReconnect fires: this.connect(this.language)
ReconnectTimerFires(k) ==
  /\ k \in DOMAIN realtimeClients
  /\ realtimeClients[k].timers > 0
  /\ Len(realtimeClients[k].sockets) < MaxSockets
  /\ realtimeClients' =
       [realtimeClients EXCEPT ![k] = reconnectTimer(realtimeClients[k])]
  /\ UNCHANGED <<added, gpt4oTranscribe, cloneRequests, realtimeConnections, app,
                 written, builder, ragPredictor, azurePredictor, sessions,
                 sessionLanguages, wsState, calls, reply>>

RealtimeNext ==
  \/ \E s \in SessionIds : Connect(s)
  \/ \E s \in SessionIds : Close(s)
  \/ \E s \in SessionIds : Stop(s)
  \/ \E s \in SessionIds : StartRealtime(s)
  \/ \E s \in SessionIds : StopRealtime(s)
  \/ \E k \in ClientIds, i \in 1..MaxSockets : SocketOpens(k, i)
  \/ \E k \in ClientIds, i \in 1..MaxSockets : SocketFails(k, i)
  \/ \E k \in ClientIds, i \in 1..MaxSockets : SocketCloses(k, i)
  \/ \E k \in ClientIds : ReconnectTimerFires(k)

SpecRealtime == Init /\ [][RealtimeNext]_vars

\* C34: once disconnect() has been called on a RealtimeTranscribe object,
\* the object opens no further connection: the close of the socket that
\* disconnect caused schedules no reconnect, and no socket is made.
C34_NoConnectionAfterDisconnect ==
  [][\A k \in DOMAIN realtimeClients :
       realtimeClients[k].disconnectCalled =>
         Len(realtimeClients'[k].sockets) = Len(realtimeClients[k].sockets)]_vars

\* C35: reconnectAttempts never exceeds 5 and no more than 5 reconnects are
\* scheduled between two opens; an 'open' sets reconnectAttempts to 0; a
\* 'close' event schedules at most one reconnect.
C35_ReconnectBounded ==
  [][\A k \in DOMAIN realtimeClients' :
       LET new == realtimeClients'[k]
       IN /\ new.reconnectAttempts <= 5
          /\ new.scheduled <= 5
          /\ k \in DOMAIN realtimeClients =>
               LET old == realtimeClients[k]
                   opened == \E i \in DOMAIN old.sockets :
                               old.sockets[i] # "open" /\ new.sockets[i] = "open"
                   closed == {i \in DOMAIN old.sockets :
                                old.sockets[i] # "closed" /\ new.sockets[i] = "closed"}
               IN /\ opened => new.reconnectAttempts = 0 /\ new.scheduled = 0
                  /\ new.timers <= old.timers + Cardinality(closed)
                  /\ Cardinality(closed) <= 1]_vars

\* five reconnects in a row failed: the sixth socket has closed and no
\* further reconnect is scheduled
C35_Witness ==
  \E k \in DOMAIN realtimeClients :
    /\ realtimeClients[k].reconnectAttempts = 5
    /\ realtimeClients[k].timers = 0
    /\ Len(realtimeClients[k].sockets) = 6
    /\ \A i \in DOMAIN realtimeClients[k].sockets :
         realtimeClients[k].sockets[i] = "closed"

\* the sockets of the objects made for session s that are open
openSockets(s) ==
  {<<k, i>> \in ClientIds \X (1..MaxSockets) :
     /\ k \in DOMAIN realtimeClients
     /\ realtimeClients[k].session = s
     /\ i \in DOMAIN realtimeClients[k].sockets
     /\ realtimeClients[k].sockets[i] = "open"}

\* C36: a session has at most one open Realtime connection at any time, and
\* once its WebSocket has closed no Realtime connection is registered or
\* open for it.
C36_OneRealtimeConnection ==
  \A s \in SessionIds :
    /\ Cardinality(openSockets(s)) <= 1
    /\ wsState[s] = "closed" =>
         /\ s \notin DOMAIN realtimeConnections
         /\ openSockets(s) = {}

----------------------------------------------------------------------------
(* frontend/app.js: EchoNextApp in its main phase.  timers are the timers   *)
(* scheduleInterimPrediction has set, in order, each with its text and      *)
(* "pending", "cleared" or "fired"; interimDebounceTimer is the index of    *)
(* the timer the field holds, 0 for null.  sources are the buffer sources   *)
(* playAudio has started, each "playing", "stopped" (stop() was called, its *)
(* 'ended' event is still to come) or "ended"; currentAudioSource is an     *)
(* index, 0 for null.  wsOpen is this.ws && this.ws.readyState === OPEN;    *)
(* sent are the texts of the 'transcript' messages sent.  now is the clock  *)
(* Date.now() reads.  latest and results record the recognizer: its last    *)
(* result while the system was active (its trimmed text, whether it was     *)
(* final, whether the system has been active and the socket open ever       *)
(* since it came, and whether that text was sent since), and how many       *)
(* results it gave.                                                         *)
(* The transcript on display leaves no trace in what is sent or played and  *)
(* is left out.                                                             *)

audioPlaybackTimeout == 2000

\* Date.now() when the page is loaded, in ms: more than audioPlaybackTimeout
\* after 0
StartTime == 10000

\* the time that passes in a run, in ms
MaxElapsed == 4002

\* the results the recognizer gives in a run
MaxResults == 2

\* the audio messages played in a run
MaxSources == 2

\* the constructor, and the page brought to its main phase
EchoNextApp ==
  [page |-> "main", isSystemActive |-> FALSE, wsOpen |-> FALSE,
   interimDebounceTimer |-> 0, timers |-> <<>>,
   lastInterimText |-> <<>>, lastPredictedText |-> <<>>,
   lastSpeechTimestamp |-> 0, currentAudioSource |-> 0,
   audioSequenceId |-> 0, sources |-> <<>>, sent |-> <<>>,
   now |-> StartTime,
   latest |-> [final |-> FALSE, text |-> <<>>, steady |-> FALSE,
               sent |-> FALSE],
   results |-> 0]

\* sendTranscript(text)
sendTranscript(self, text) ==
  IF self.wsOpen THEN [self EXCEPT !.sent = Append(@, text)] ELSE self

\* clearTimeout(this.interimDebounceTimer) when the field is not null
clearDebounce(self) ==
  IF self.interimDebounceTimer # 0
    THEN [self EXCEPT !.timers[self.interimDebounceTimer].state =
                        IF @ = "pending" THEN "cleared" ELSE @]
    ELSE self

\* scheduleInterimPrediction(interimText)
scheduleInterimPrediction(self, interimText) ==
  LET s1 == clearDebounce(self)
  IN IF Len(interimText) < 2 THEN s1
     ELSE IF interimText = self.lastInterimText THEN s1
     ELSE [s1 EXCEPT !.lastInterimText = interimText,
                     !.timers = Append(@, [text |-> interimText,
                                           state |-> "pending"]),
                     !.interimDebounceTimer = Len(s1.timers) + 1]

\* the callback of the timer: timer i fires
interimTimerCallback(self, i) ==
  LET s1 == sendTranscript(self, self.timers[i].text)
  IN [s1 EXCEPT !.timers[i].state = "fired",
                !.interimDebounceTimer = 0,
                !.lastPredictedText = self.timers[i].text]

\* AudioBufferSourceNode.stop()
sourceStop(state) == IF state = "playing" THEN "stopped" ELSE state

\* recognition.onresult, with the finalTranscript and the interimTranscript
\* it has put together from the event
onresult(self, finalTranscript, interimTranscript) ==
  IF ~self.isSystemActive THEN self
  ELSE
    LET speech == finalTranscript # <<>> \/ interimTranscript # <<>>
        s1 == IF ~speech THEN self
              ELSE [self EXCEPT
                      !.lastSpeechTimestamp = self.now,
                      !.sources = IF self.currentAudioSource # 0
                                    THEN [@ EXCEPT ![self.currentAudioSource] =
                                                     sourceStop(@)]
                                    ELSE @,
                      !.currentAudioSource = 0,
                      !.audioSequenceId = @ + 1]
    IN IF finalTranscript # <<>>
         THEN LET s2 == [clearDebounce(s1) EXCEPT !.interimDebounceTimer = 0]
                  text == trim(finalTranscript)
              IN IF text # s2.lastPredictedText
                   THEN [sendTranscript(s2, text) EXCEPT !.lastPredictedText = text]
                   ELSE s2
       ELSE IF interimTranscript # <<>> /\ Len(trim(interimTranscript)) > 0
         THEN scheduleInterimPrediction(s1, trim(interimTranscript))
       ELSE s1

\* playAudio starting the source without stopping the one that plays
playAudio_overlapping(self, audio) ==
  IF self.now - self.lastSpeechTimestamp > audioPlaybackTimeout THEN self
  ELSE IF Len(audio) = 0 \/ Len(audio) % 2 # 0 THEN self
  ELSE [self EXCEPT !.sources = Append(@, "playing"),
                    !.currentAudioSource = Len(self.sources) + 1]

\* playAudio(data); audio is atob(data.audio), the bytes.  The function has
\* no await: it runs to its end in one turn.  An odd number of bytes makes
\* new Int16Array(arrayBuffer) throw, and the catch block ends the call.
playAudio(self, audio) ==
  LET currentSequenceId == self.audioSequenceId
  IN IF self.now - self.lastSpeechTimestamp > audioPlaybackTimeout THEN self
     ELSE IF Len(audio) = 0 THEN self
     ELSE IF Len(audio) % 2 # 0 THEN self
     ELSE IF currentSequenceId # self.audioSequenceId THEN self
     ELSE [self EXCEPT
             !.sources = Append(IF self.currentAudioSource # 0
                                  THEN [@ EXCEPT ![self.currentAudioSource] =
                                                   sourceStop(@)]
                                  ELSE @,
                                "playing"),
             !.currentAudioSource = Len(self.sources) + 1]

\* source.onended of source i
sourceOnEnded(self, i) ==
  [self EXCEPT !.sources[i] = "ended",
               !.currentAudioSource = IF @ = i THEN 0 ELSE @]

\* the page in its main phase, the socket still connecting
InitFrontend ==
  /\ InitClone
  /\ InitRealtime
  /\ written = << >>
  /\ ragPredictor = RAGPredictor
  /\ azurePredictor = AzurePredictor
  /\ sessions = << >>
  /\ sessionLanguages = << >>
  /\ wsState = [s \in SessionIds |-> "none"]
  /\ calls = [c \in CallIds |-> NewCall(c)]
  /\ reply = [op |-> "none"]
  /\ builder = NoBuilder
  /\ app = EchoNextApp

\* what the frontend leaves alone
serverVars ==
  <<added, gpt4oTranscribe, cloneRequests, realtimeConnections,
    realtimeClients, written, builder, ragPredictor, azurePredictor,
    sessions, sessionLanguages, wsState, calls, reply>>

\* ws.onopen
WsOpens ==
  /\ ~app.wsOpen
  /\ app' = [app EXCEPT !.wsOpen = TRUE]
  /\ UNCHANGED serverVars

\* the socket closes (ws.onclose)
WsCloses ==
  /\ app.wsOpen
  /\ app' = [app EXCEPT !.wsOpen = FALSE, !.latest.steady = FALSE]
  /\ UNCHANGED serverVars

\* startSystem()
StartSystem ==
  /\ ~app.isSystemActive
  /\ app' = [app EXCEPT !.isSystemActive = TRUE]
  /\ UNCHANGED serverVars

\* stopSystem()
StopSystem ==
  /\ app.isSystemActive
  /\ app' = [app EXCEPT !.isSystemActive = FALSE, !.latest.steady = FALSE]
  /\ UNCHANGED serverVars

\* the final and the interim texts of a recognition event
FinalTranscripts == { <<>>, <<"a", "b", " ">> }
InterimTranscripts == { <<>>, <<" ">>, <<"a">>, <<"a", "b">>, <<"c", "d">> }

\* the recognizer gives a result: the whole of onresult
RecognitionResult(finalTranscript, interimTranscript) ==
  /\ app.results < MaxResults
  /\ LET s1 == onresult(app, finalTranscript, interimTranscript)
         text == IF finalTranscript # <<>> THEN trim(finalTranscript)
                 ELSE trim(interimTranscript)
         isFinal == finalTranscript # <<>>
         same == app.latest.text = text /\ app.latest.final = isFinal
     IN app' = [s1 EXCEPT
                  !.results = @ + 1,
                  !.latest =
                    IF ~app.isSystemActive THEN @
                    ELSE [final |-> isFinal, text |-> text,
                          steady |-> app.wsOpen /\ (same => app.latest.steady),
                          sent |-> (same /\ app.latest.sent)
                                   \/ Len(s1.sent) > Len(app.sent)]]
  /\ UNCHANGED serverVars

\* the debounce interval of timer i has passed
DebounceTimerFires(i) ==
  /\ i \in DOMAIN app.timers
  /\ app.timers[i].state = "pending"
  /\ LET s1 == interimTimerCallback(app, i)
     IN app' = [s1 EXCEPT
                  !.latest.sent = @ \/ (/\ Len(s1.sent) > Len(app.sent)
                                         /\ app.latest.text = app.timers[i].text)]
  /\ UNCHANGED serverVars

\* atob(data.audio) of an 'audio' message: nothing, an odd and an even
\* number of bytes
AudioPayloads == { <<>>, <<0>>, <<0, 0>> }

\* an 'audio' message arrives: handleServerMessage calls playAudio
AudioArrives(audio) ==
  /\ Len(app.sources) < MaxSources
  /\ app' = playAudio(app, audio)
  /\ UNCHANGED serverVars

\* source i comes to its end, or the 'ended' event of a stopped source
\* arrives
SourceEnds(i) ==
  /\ i \in DOMAIN app.sources
  /\ app.sources[i] \in {"playing", "stopped"}
  /\ app' = sourceOnEnded(app, i)
  /\ UNCHANGED serverVars

\* time passes
Tick(d) ==
  /\ app.now + d <= StartTime + MaxElapsed
  /\ app' = [app EXCEPT !.now = @ + d]
  /\ UNCHANGED serverVars

FrontendNext ==
  \/ WsOpens
  \/ WsCloses
  \/ StartSystem
  \/ StopSystem
  \/ \E f \in FinalTranscripts, i \in InterimTranscripts : RecognitionResult(f, i)
  \/ \E i \in 1..MaxResults : DebounceTimerFires(i)
  \/ \E a \in AudioPayloads : AudioArrives(a)
  \/ \E i \in 1..MaxSources : SourceEnds(i)
  \/ \E d \in {2000, 2001} : Tick(d)

\* a timer that is pending comes to fire: the event loop runs the callback
\* of setTimeout once its delay has passed
SpecFrontend ==
  /\ InitFrontend
  /\ [][FrontendNext]_vars
  /\ WF_vars(\E i \in 1..MaxResults : DebounceTimerFires(i))

----------------------------------------------------------------------------
(* Properties of the page *)

\* the interim text t, long enough, is the recognizer's latest result, and
\* since it came the system has been active and the socket open
InterimStays(t) ==
  /\ app.latest.steady
  /\ ~app.latest.final
  /\ app.latest.text = t
  /\ Len(t) >= 2

\* C37: an interim transcript of at least the minimum length that stays the
\* recognizer's latest result, the socket open, is eventually sent as a
\* 'transcript' message, also when the recognizer reports the same interim
\* text more than once.
C37_InterimEventuallySent ==
  \A t \in {trim(i) : i \in InterimTranscripts} :
    InterimStays(t) ~> (app.latest.sent \/ ~InterimStays(t))

\* the sources of the page that are playing
playing(self) == {i \in DOMAIN self.sources : self.sources[i] = "playing"}

\* C38: an audio is played only if it arrives within audioPlaybackTimeout of
\* the last detected speech, and no speech is detected (audioSequenceId does
\* not change) between its arrival and the start of its playback; at most
\* one source plays at a time: starting one stops the one before, and new
\* speech stops the current one.
C38_AudioPlayedWhenFresh ==
  [][/\ Len(app'.sources) > Len(app.sources) =>
          /\ app.now - app.lastSpeechTimestamp <= audioPlaybackTimeout
          /\ app'.audioSequenceId = app.audioSequenceId
          /\ playing(app') = {Len(app'.sources)}
          /\ app'.currentAudioSource = Len(app'.sources)
     /\ app'.audioSequenceId # app.audioSequenceId =>
          /\ playing(app') = {}
          /\ app'.currentAudioSource = 0
          /\ app'.lastSpeechTimestamp = app.now
     /\ Cardinality(playing(app')) <= 1]_vars

\* a second audio arrived in time while the first was playing: the first
\* was stopped and the second plays
C38_Witness ==
  /\ Len(app.sources) = 2
  /\ app.sources[1] = "stopped"
  /\ app.sources[2] = "playing"
  /\ app.currentAudioSource = 2
  /\ app.now - app.lastSpeechTimestamp <= audioPlaybackTimeout

====
